---- MODULE Spec2Model ----
(***************************************************************************)
(* A model of pkgcore's profile node loading (ebuild/profiles.py), profile *)
(* stack collapsing, update-file processing (ebuild/pkg_updates.py) and    *)
(* metadata masking of the ebuild repository (ebuild/repository.py).       *)
(*                                                                         *)
(* Text is a sequence of one-character strings, a file is a sequence of    *)
(* lines, so that splitting, stripping and prefix tests are computed and   *)
(* not assumed.                                                            *)
(***************************************************************************)
EXTENDS Integers, Sequences, FiniteSets, TLC

\* ------------------------------------------------------------------ bounds

\* attribute reads of one ProfileNode in a behaviour
MaxReads == 3
\* changes of the profile directory on disk in a behaviour
MaxWrites == 1
\* profile directories below the base path; the last one is the profile's own
MaxNodes == 3
\* lines of a parent file
MaxParents == 2
\* lines of all update files together
MaxLines == 3
\* itermatch calls on a repository
MaxIters == 2
\* collapsed attributes a behaviour computes on one profile
MaxLoads == 1

VARIABLES
    \* one ProfileNode and its directory
    disk,       \* file name -> [exists, lines]
    cache,      \* the instance __dict__: attribute -> [ld, v]
    ret,        \* the outcome of the last attribute read
    first,      \* history: attribute -> the value its first successful read returned
    failed,     \* history: attribute -> the error of its last failed read
    nReads,
    nWrites

nodeVars == <<disk, cache, ret, first, failed, nReads, nWrites>>

VARIABLES
    \* one OnDiskProfile over the directories 0 (the base path) .. MaxNodes
    parentsOf,  \* directory -> the directories its parent file lists
    layer,      \* directory -> which content its other files hold
    loadBase,   \* load_profile_base
    inst,       \* the profile's instance dict: attribute -> [set, v]
    got         \* the last attribute read from the profile: [attr, ok, v]

profVars == <<parentsOf, layer, loadBase, inst, got>>

VARIABLES
    \* one call of read_updates(path)
    updPc,      \* "start", "lines", "done" or "raised"
    pending,    \* the files _scan_directory returned that are not read to the end
    heap,       \* the deques made so far: each a sequence of commands and deques
    mods,       \* key -> <<first deque, last deque>>
    moved,      \* key -> the atom it was moved to
    hist,       \* the lines read so far, each with what became of it
    commands    \* what read_updates returned

updVars == <<updPc, pending, heap, mods, moved, hist, commands>>

VARIABLES
    \* one UnconfiguredTree and the generators its itermatch handed out
    pkgKind,    \* package -> what evaluating its metadata does
    masked,     \* the _masked repository: versioned atom -> MetadataException
    iters,      \* generator -> [state, matched, todo, yielded]
    evals       \* package -> how often its metadata was evaluated

repoVars == <<pkgKind, masked, iters, evals>>

VARIABLES
    \* the instances of the classes whose metaclass is WeakInstMeta
    objs,       \* the objects created so far: [kls, args, cached, refs]
    instDict,   \* class -> its weak dictionary: construction arguments -> object
    made        \* the outcome of the last construction

cacheVars == <<objs, instDict, made>>

VARIABLES
    \* one call of pmerge's main
    vdb,         \* the installed packages at the call, in the order of their install
    vdbFrozen,   \* vdb.frozen
    pkgsets,     \* the names in config.pkgset
    options,
    targets,     \* options.targets
    pmPc,        \* "start" or "done"
    uninstalled, \* the uninstalls issued, in order, each with what finish() gave
    result       \* what main returned and what it did

pmVars == <<vdb, vdbFrozen, pkgsets, options, targets, pmPc, uninstalled, result>>

VARIABLES
    \* one call of map_async
    poolPc,     \* where the main thread is: "start", "feed", "signals", "join", ...
    parallelism,        \* the number of threads
    iterable,   \* [n, raises, sized]: the items it yields, whether it raises
                \* then, and whether it has a length
    threads,    \* the threads argument
    queue,          \* the queue
    kill,       \* the event
    wpc,        \* thread -> "new", "check", "get", "item" or "ended"
    idx,        \* the position of the main thread's current loop
    raising,    \* an exception is on its way out of map_async
    results,    \* how many results were appended
    taken       \* thread -> what its qlist.get() calls returned, each with
                \* whether kill was set by then, and whether its functor
                \* returned or raised before the iterator ended

poolVars == <<poolPc, parallelism, iterable, threads, queue, kill, wpc, idx, raising,
              results, taken>>

VARIABLES
    \* one call of agent_rpc_call
    agentPc,    \* "start" or "done"
    rpcRequest, \* the request dict
    environ,    \* CB_AGENT_RPC_FDS is in os.environ
    sent,       \* what was written to the output pipe
    inPipe,     \* what the input pipe holds: [head, body]
    rpcResult   \* [exc, repl]: the exception raised, or the reply returned

agentVars == <<agentPc, rpcRequest, environ, sent, inPipe, rpcResult>>

VARIABLES
    \* one read of OnDiskProfile.stack over parent files that may form a cycle
    stackPc,    \* "start" or "done"
    parentFile, \* directory -> the directories its parent file lists
    stack       \* [exc, l]: the exception raised, or the stack

stackVars == <<stackPc, parentFile, stack>>

VARIABLES
    \* one range node of a GLSA and one package it is matched against
    glsaPc,     \* "start", "built" or "done"
    rangeNode,  \* [range, version, revision, glob]: the range attribute and the text
    pkgVersion, \* [version, revision] of the package
    restricts,  \* negate -> the restriction generate_restrict_from_range gave
    matched     \* negate -> whether that restriction matches the package

glsaVars == <<glsaPc, rangeNode, pkgVersion, restricts, matched>>

\* the state of the parts added after the repository
restVars == <<cacheVars, pmVars, poolVars, agentVars, stackVars, glsaVars>>

\* all but one of the parts
notCache == <<nodeVars, profVars, updVars, repoVars, pmVars, poolVars, agentVars, stackVars, glsaVars>>
notPm == <<nodeVars, profVars, updVars, repoVars, cacheVars, poolVars, agentVars, stackVars, glsaVars>>
notPool == <<nodeVars, profVars, updVars, repoVars, cacheVars, pmVars, agentVars, stackVars, glsaVars>>
notStack == <<nodeVars, profVars, updVars, repoVars, cacheVars, pmVars, poolVars, agentVars, glsaVars>>
notAgent == <<nodeVars, profVars, updVars, repoVars, cacheVars, pmVars, poolVars, stackVars, glsaVars>>
notGlsa == <<nodeVars, profVars, updVars, repoVars, cacheVars, pmVars, poolVars, agentVars, stackVars>>

vars == <<nodeVars, profVars, updVars, repoVars, restVars>>

\* ------------------------------------------------------------------- text

Range(s) == {s[i] : i \in 1..Len(s)}

Digits == {"0", "1", "2", "3", "4", "5", "6", "7", "8", "9"}

DigitChar(i) ==
    CASE i = 0 -> "0" [] i = 1 -> "1" [] i = 2 -> "2" [] i = 3 -> "3"
      [] i = 4 -> "4" [] i = 5 -> "5" [] i = 6 -> "6" [] i = 7 -> "7"
      [] i = 8 -> "8" [] OTHER -> "9"

DigitVal(ch) ==
    CASE ch = "0" -> 0 [] ch = "1" -> 1 [] ch = "2" -> 2 [] ch = "3" -> 3
      [] ch = "4" -> 4 [] ch = "5" -> 5 [] ch = "6" -> 6 [] ch = "7" -> 7
      [] ch = "8" -> 8 [] OTHER -> 9

\* str.isdigit
isdigit(t) == Len(t) > 0 /\ \A i \in 1..Len(t) : t[i] \in Digits

\* int(str) of a text of digits
RECURSIVE int(_)
int(t) == IF t = <<>> THEN 0
          ELSE 10 * int(SubSeq(t, 1, Len(t) - 1)) + DigitVal(t[Len(t)])

\* index of the first ch in t at or after position i, or Len(t) + 1
RECURSIVE Find(_, _, _)
Find(t, ch, i) == IF i > Len(t) THEN Len(t) + 1
                  ELSE IF t[i] = ch THEN i ELSE Find(t, ch, i + 1)

\* str.split(): the maximal runs of non-blank characters
RECURSIVE split(_)
split(t) ==
    IF t = <<>> THEN <<>>
    ELSE IF t[1] = " " THEN split(Tail(t))
    ELSE LET e == Find(t, " ", 1)
         IN <<SubSeq(t, 1, e - 1)>> \o split(SubSeq(t, e, Len(t)))

\* str.lstrip(ch)
RECURSIVE lstrip(_, _)
lstrip(t, ch) == IF t # <<>> /\ t[1] = ch THEN lstrip(Tail(t), ch) ELSE t

\* str.strip() of blanks
RECURSIVE rstrip(_)
rstrip(t) == IF t # <<>> /\ t[Len(t)] = " " THEN rstrip(SubSeq(t, 1, Len(t) - 1)) ELSE t

strip(t) == rstrip(lstrip(t, " "))

\* a dict is a set of [k, v] items with distinct keys
Keys(D) == {e.k : e \in D}
Lookup(D, key) == (CHOOSE e \in D : e.k = key).v
DictPut(D, key, val) == {e \in D : e.k # key} \cup {[k |-> key, v |-> val]}

\* ------------------------------------------------------------- the files

Files == {"packages", "parent", "package.provided", "virtuals", "package.mask",
          "deprecated", "use.mask", "package.use", "package.use.force",
          "package.use.mask", "use.force", "make.defaults", "profile.bashrc",
          "eapi"}

Missing == [exists |-> FALSE, lines |-> <<>>]
File(ls) == [exists |-> TRUE, lines |-> ls]

\* the profile directories, named by their number; a parent line names one
NodeDir(i) == <<DigitChar(i)>>
Dirs == {NodeDir(i) : i \in 1..MaxNodes}

\* pkgcore.ebuild.const.eapi_capable
eapi_capable == {0, 1, 2}

\* iter_read_bash: the lines that are neither blank nor comments
Significant(l) == strip(l) # <<>> /\ strip(l)[1] # "#"
iter_read_bash(ls) ==
    LET kept == SelectSeq(ls, Significant)
    IN [i \in 1..Len(kept) |-> strip(kept[i])]

\* readlines_utf8(path, True, True, True): the stripped lines
readlines_utf8(ls) == [i \in 1..Len(ls) |-> strip(ls[i])]

\* ------------------------------------------------ atoms (pkgcore.ebuild.atom)

\* an atom text is key, =key-version, key:slot or =key-version:slot; the
\* empty text and a missing version or slot are malformed
Unslotted(t) == SubSeq(t, 1, Find(t, ":", 1) - 1)
AtomOk(t) ==
    /\ Unslotted(t) # <<>>
    /\ Find(t, ":", 1) # Len(t)
    /\ t[1] = "=" => Find(Unslotted(t), "-", 1) \in 3..(Len(Unslotted(t)) - 1)
atom_key(t) ==
    IF t[1] = "=" THEN SubSeq(t, 2, Find(t, "-", 1) - 1) ELSE Unslotted(t)
\* atom.fullver and atom.slot; the empty text stands for None
atom_ver(t) ==
    IF t[1] = "=" THEN SubSeq(Unslotted(t), Find(t, "-", 1) + 1, Len(Unslotted(t)))
    ELSE <<>>
atom_slot(t) == SubSeq(t, Find(t, ":", 1) + 1, Len(t))
eapi_atom(t, negate_vers) == [atom |-> t, nv |-> negate_vers]
plain_atom(t) == eapi_atom(t, FALSE)

\* cpv.versioned_CPV: category/package-version, kept as its text
CpvOk(t) ==
    /\ Find(t, "/", 1) \in 2..(Len(t) - 3)
    /\ Find(t, "-", 1) \in (Find(t, "/", 1) + 2)..(Len(t) - 1)
versioned_CPV(t) == t
cpv_category(t) == SubSeq(t, 1, Find(t, "/", 1) - 1)
cpv_package(t) == SubSeq(t, Find(t, "/", 1) + 1, Find(t, "-", 1) - 1)
cpv_fullver(t) == SubSeq(t, Find(t, "-", 1) + 1, Len(t))

\* cpv.CPV.unversioned(t).package: the part after the slash
UnversionedOk(t) == Find(t, "/", 1) \in 2..(Len(t) - 1)
PackageOf(t) == SubSeq(t, Find(t, "/", 1) + 1, Len(t))

\* ------------------------------------------------------- split_negations

\* func of split_negations, by name ("str", "versioned_CPV", "atom"):
\* func(t) returns
func_ok(func, t) ==
    CASE func = "versioned_CPV" -> CpvOk(t)
      [] func = "atom" -> AtomOk(t)
      [] OTHER -> TRUE

func_call(func, t) ==
    CASE func = "versioned_CPV" -> versioned_CPV(t)
      [] func = "atom" -> plain_atom(t)
      [] OTHER -> t

IsNeg(l) == l[1] = "-"
IsPos(l) == l[1] # "-"

\* split_negations raises for a lone '-' and when func raises
split_negations_ok(data, func) ==
    \A i \in 1..Len(data) :
        IF data[i][1] = "-"
        THEN Len(data[i]) > 1 /\ func_ok(func, Tail(data[i]))
        ELSE func_ok(func, data[i])

split_negations(data, func) ==
    LET n == SelectSeq(data, IsNeg)
        p == SelectSeq(data, IsPos)
    IN [neg |-> [i \in 1..Len(n) |-> func_call(func, Tail(n[i]))],
        pos |-> [i \in 1..Len(p) |-> func_call(func, p[i])]]

\* ----------------------------------------------------- ProfileNode loaders

Attrs == {"system", "visibility", "masks", "pkg_use", "pkg_use_force",
          "pkg_use_mask", "forced_use", "masked_use", "default_env", "virtuals",
          "pkg_provided", "eapi", "deprecated", "parents", "bashrc"}

AllAttrs == Attrs \cup {"eapi_atom"}

EmptyCache == [a \in AllAttrs |-> [ld |-> FALSE, v |-> <<>>]]

\* setattr on the instance
Store(c, a, v) == [c EXCEPT ![a] = [ld |-> TRUE, v |-> v]]

\* a loader ends with the instance dict c, the files it touched t, and either
\* a value (ok) or the file name of the ProfileError it raised
Ok(c, t, v) == [c |-> c, t |-> t, ok |-> TRUE, v |-> v]
Fail(c, t, f) == [c |-> c, t |-> t, ok |-> FALSE, v |-> f]

\* load_decorator: the data handed to the loader
Data(d, f, fallback) ==
    IF d[f].exists THEN iter_read_bash(d[f].lines) ELSE fallback

\* the function load_decorator('eapi') wraps
load_eapi_func(c, data) ==
    IF Len(data) # 1 THEN Fail(c, {"eapi"}, "eapi")
    ELSE IF ~(isdigit(data[1]) /\ int(data[1]) \in eapi_capable)
         THEN Fail(c, {"eapi"}, "eapi")
    ELSE Ok(Store(c, "eapi", data[1]), {"eapi"}, data[1])

load_eapi_StoreFirst(c, d) ==
    LET data == Data(d, "eapi", << <<"0">> >>)
        t == {"eapi"}
        c1 == IF Len(data) >= 1 THEN Store(c, "eapi", data[1]) ELSE c
    IN IF Len(data) # 1 THEN Fail(c1, t, "eapi")
       ELSE IF ~(isdigit(data[1]) /\ int(data[1]) \in eapi_capable)
            THEN Fail(c1, t, "eapi")
       ELSE Ok(c1, t, data[1])

load_eapi(c, d) == load_eapi_func(c, Data(d, "eapi", << <<"0">> >>))

\* self.eapi: the instance dict, else __getattr__
get_eapi(c, d) ==
    IF c["eapi"].ld THEN Ok(c, {}, c["eapi"].v) ELSE load_eapi(c, d)

\* _load_eapi_atom, r being what self.eapi gave
load_eapi_atom_func(r) ==
    IF ~r.ok THEN r
    ELSE Ok(Store(r.c, "eapi_atom", [eapi |-> r.v]), r.t, [eapi |-> r.v])

load_eapi_atom(c, d) == load_eapi_atom_func(get_eapi(c, d))

\* self.eapi_atom
get_eapi_atom(c, d) ==
    IF c["eapi_atom"].ld THEN Ok(c, {}, c["eapi_atom"].v) ELSE load_eapi_atom(c, d)

\* one line of the packages file: which list it goes to, or an error
PackagesLineOk(l) ==
    IF l[1] = "-"
    THEN Len(l) > 1 /\ (IF l[2] = "*" THEN AtomOk(SubSeq(l, 3, Len(l)))
                        ELSE AtomOk(Tail(l)))
    ELSE IF l[1] = "*" THEN AtomOk(Tail(l)) ELSE AtomOk(l)

\* the line fails before self.eapi_atom is evaluated (line[1] of a lone '-')
PackagesLineEarly(l) == l = <<"-">>

IsNegSys(l) == l[1] = "-" /\ l[2] = "*"
IsNegVis(l) == l[1] = "-" /\ l[2] # "*"
IsSys(l) == l[1] = "*"
IsVis(l) == l[1] # "-" /\ l[1] # "*"

SysAtom0(l) == eapi_atom(Tail(l), FALSE)
NegSysAtom(l) == eapi_atom(SubSeq(l, 3, Len(l)), FALSE)
VisAtom0(l) == eapi_atom(l, TRUE)
NegVisAtom(l) == eapi_atom(Tail(l), TRUE)

\* the function load_decorator("packages") wraps, r being what
\* self.eapi_atom gives when a line comes to it
load_packages_func(c, data, r) ==
    LET t == {"packages"}
        ns == SelectSeq(data, IsNegSys)
        ps == SelectSeq(data, IsSys)
        nv == SelectSeq(data, IsNegVis)
        pv == SelectSeq(data, IsVis)
        sys == [neg |-> [i \in 1..Len(ns) |-> NegSysAtom(ns[i])],
                pos |-> [i \in 1..Len(ps) |-> SysAtom0(ps[i])]]
        vis == [neg |-> [i \in 1..Len(nv) |-> NegVisAtom(nv[i])],
                pos |-> [i \in 1..Len(pv) |-> VisAtom0(pv[i])]]
    IN IF data = <<>>
       THEN Ok(Store(Store(c, "system", sys), "visibility", vis), t, <<sys, vis>>)
       ELSE IF PackagesLineEarly(data[1]) THEN Fail(c, t, "packages")
       ELSE IF ~r.ok THEN Fail(r.c, t \cup r.t, r.v)
       ELSE IF \E i \in 1..Len(data) : ~PackagesLineOk(data[i])
            THEN Fail(r.c, t \cup r.t, "packages")
       ELSE Ok(Store(Store(r.c, "system", sys), "visibility", vis),
               t \cup r.t, <<sys, vis>>)

load_packages(c, d) ==
    load_packages_func(c, Data(d, "packages", <<>>), get_eapi_atom(c, d))

load_parents_func(c, data) ==
    IF \E i \in 1..Len(data) : data[i] \notin Dirs
    THEN Fail(c, {"parent"}, "")
    ELSE Ok(Store(c, "parents", data), {"parent"}, data)

load_parents(c, d) == load_parents_func(c, Data(d, "parent", <<>>))

load_pkg_provided_func(c, data) ==
    IF ~split_negations_ok(data, "versioned_CPV")
    THEN Fail(c, {"package.provided"}, "package.provided")
    ELSE Ok(Store(c, "pkg_provided", split_negations(data, "versioned_CPV")),
            {"package.provided"}, split_negations(data, "versioned_CPV"))

load_pkg_provided(c, d) ==
    load_pkg_provided_func(c, Data(d, "package.provided", <<>>))

VirtualsLineOk(l) ==
    Len(split(l)) = 2 /\ UnversionedOk(split(l)[1]) /\ AtomOk(split(l)[2])

RECURSIVE VirtualsDict(_, _)
VirtualsDict(data, i) ==
    IF i = 0 THEN {}
    ELSE DictPut(VirtualsDict(data, i - 1),
                 PackageOf(split(data[i])[1]), plain_atom(split(data[i])[2]))

\* the function load_decorator("virtuals") wraps
load_virtuals_func(c, data, r) ==
    LET t == {"virtuals"}
    IN IF data = <<>> THEN Ok(Store(c, "virtuals", {}), t, {})
       ELSE IF Len(split(data[1])) # 2 \/ ~UnversionedOk(split(data[1])[1])
            THEN Fail(c, t, "virtuals")
       ELSE IF ~r.ok THEN Fail(r.c, t \cup r.t, r.v)
       ELSE IF \E i \in 1..Len(data) : ~VirtualsLineOk(data[i])
            THEN Fail(r.c, t \cup r.t, "virtuals")
       ELSE Ok(Store(r.c, "virtuals", VirtualsDict(data, Len(data))), t \cup r.t,
               VirtualsDict(data, Len(data)))

load_virtuals(c, d) ==
    load_virtuals_func(c, Data(d, "virtuals", <<>>), get_eapi_atom(c, d))

\* the function load_decorator("package.mask") wraps
load_masks_func(data, r) ==
    LET t == {"package.mask"}
    IN IF ~r.ok THEN Fail(r.c, t \cup r.t, r.v)
       ELSE IF ~split_negations_ok(data, "atom") THEN Fail(r.c, t \cup r.t, "package.mask")
       ELSE Ok(Store(r.c, "masks", split_negations(data, "atom")), t \cup r.t,
               split_negations(data, "atom"))

load_masks(c, d) ==
    load_masks_func(Data(d, "package.mask", <<>>), get_eapi_atom(c, d))

DeprecatedMsg(l) == strip(lstrip(l, "#"))

\* the function load_decorator("deprecated", (lambda i:i), None) wraps
load_deprecated_func(c, exists, data) ==
    LET t == {"deprecated"}
        v == <<[replacement |-> strip(data[1]),
                msg |-> [i \in 1..(Len(data) - 1) |-> DeprecatedMsg(data[i + 1])]]>>
    IN IF ~exists THEN Ok(Store(c, "deprecated", <<>>), t, <<>>)
       ELSE IF data = <<>> THEN Fail(c, t, "deprecated")
       ELSE Ok(Store(c, "deprecated", v), t, v)

load_deprecated(c, d) ==
    load_deprecated_func(c, d["deprecated"].exists,
                         readlines_utf8(d["deprecated"].lines))

\* chunked_data(key, neg, pos)
chunked_data(a, np) == [atom |-> a, neg |-> np.neg, pos |-> np.pos]

PkgUseLineOk(l) ==
    /\ AtomOk(split(l)[1])
    /\ Len(split(l)) > 1
    /\ split_negations_ok(Tail(split(l)), "str")

\* d[a.key].append(chunked_data(a, *split_negations(l[1:]))), line by line
RECURSIVE PkgUseDict(_, _)
PkgUseDict(data, i) ==
    IF i = 0 THEN {}
    ELSE LET D == PkgUseDict(data, i - 1)
             l == split(data[i])
             key == atom_key(l[1])
             old == IF key \in Keys(D) THEN Lookup(D, key) ELSE <<>>
         IN DictPut(D, key,
                Append(old, chunked_data(plain_atom(l[1]),
                                         split_negations(Tail(l), "str"))))

\* _parse_package_use on the data of file f, stored as attr
parse_package_use(c, data, f, attr, r) ==
    LET t == {f}
    IN IF data = <<>> THEN Ok(Store(c, attr, {}), t, {})
       ELSE IF ~r.ok THEN Fail(r.c, t \cup r.t, r.v)
       ELSE IF \E i \in 1..Len(data) : ~PkgUseLineOk(data[i])
            THEN Fail(r.c, t \cup r.t, f)
       ELSE Ok(Store(r.c, attr, PkgUseDict(data, Len(data))), t \cup r.t,
               PkgUseDict(data, Len(data)))

load_pkg_use(c, d) ==
    parse_package_use(c, Data(d, "package.use", <<>>), "package.use", "pkg_use",
                      get_eapi_atom(c, d))

load_pkg_use_force(c, d) ==
    parse_package_use(c, Data(d, "package.use.force", <<>>), "package.use.force",
                      "pkg_use_force", get_eapi_atom(c, d))

load_pkg_use_mask(c, d) ==
    parse_package_use(c, Data(d, "package.use.mask", <<>>), "package.use.mask",
                      "pkg_use_mask", get_eapi_atom(c, d))

\* the key of the chunks that apply to every package (packages.AlwaysTrue)
AlwaysTrue == <<"*">>

\* self.pkg_use_mask, self.pkg_use_force: the instance dict, else the loader
get_pkg_use(c, attr, loaded) ==
    IF c[attr].ld THEN Ok(c, {}, c[attr].v) ELSE loaded

\* _load_masked_use and _load_forced_use on the data of file f: the
\* per-package dict r of the node, chained with one AlwaysTrue chunk when
\* the file lists anything, stored as attr
load_global_use(data, f, attr, r) ==
    LET t == {f}
        np == split_negations(data, "str")
        v == IF np.neg # <<>> \/ np.pos # <<>>
             THEN DictPut(r.v, AlwaysTrue, <<chunked_data(AlwaysTrue, np)>>)
             ELSE r.v
    IN IF ~r.ok THEN Fail(r.c, t \cup r.t, r.v)
       ELSE IF ~split_negations_ok(data, "str") THEN Fail(r.c, t \cup r.t, f)
       ELSE Ok(Store(r.c, attr, v), t \cup r.t, v)

load_masked_use(c, d) ==
    load_global_use(Data(d, "use.mask", <<>>), "use.mask", "masked_use",
                    get_pkg_use(c, "pkg_use_mask", load_pkg_use_mask(c, d)))

load_forced_use(c, d) ==
    load_global_use(Data(d, "use.force", <<>>), "use.force", "forced_use",
                    get_pkg_use(c, "pkg_use_force", load_pkg_use_force(c, d)))

\* read_bash_dict: KEY=value lines; a line without '=' is a parse error
EnvLineOk(l) == Find(l, "=", 1) \in 2..Len(l)

RECURSIVE read_bash_dict(_, _)
read_bash_dict(ls, i) ==
    IF i = 0 THEN {}
    ELSE DictPut(read_bash_dict(ls, i - 1),
                 SubSeq(ls[i], 1, Find(ls[i], "=", 1) - 1),
                 SubSeq(ls[i], Find(ls[i], "=", 1) + 1, Len(ls[i])))

\* _load_default_env on the lines ls of make.defaults
load_default_env_func(c, exists, ls) ==
    LET t == {"make.defaults"}
    IN IF ~exists THEN Ok(Store(c, "default_env", {}), t, {})
       ELSE IF \E i \in 1..Len(ls) : ~EnvLineOk(ls[i]) THEN Fail(c, t, "make.defaults")
       ELSE Ok(Store(c, "default_env", read_bash_dict(ls, Len(ls))), t,
               read_bash_dict(ls, Len(ls)))

load_default_env(c, d) ==
    load_default_env_func(c, d["make.defaults"].exists,
                          iter_read_bash(d["make.defaults"].lines))

load_bashrc_NoneUncached(c, d) ==
    LET t == {"profile.bashrc"}
    IN IF d["profile.bashrc"].exists
       THEN Ok(Store(c, "bashrc", <<"profile.bashrc">>), t, <<"profile.bashrc">>)
       ELSE Ok(c, t, <<>>)

load_bashrc(c, d) ==
    LET t == {"profile.bashrc"}
        v == IF d["profile.bashrc"].exists THEN <<"profile.bashrc">> ELSE <<>>
    IN Ok(Store(c, "bashrc", v), t, v)

\* getattr(self, attr) once _load_packages has run
packages_attr(r, attr) == IF r.ok THEN Ok(r.c, r.t, r.c[attr].v) ELSE r

\* ProfileNode.__getattr__: reached only when the instance dict has no attr
getattr_miss(c, d, attr) ==
    CASE attr \in {"system", "visibility"} -> packages_attr(load_packages(c, d), attr)
      [] attr = "parents" -> load_parents(c, d)
      [] attr = "pkg_provided" -> load_pkg_provided(c, d)
      [] attr = "virtuals" -> load_virtuals(c, d)
      [] attr = "masks" -> load_masks(c, d)
      [] attr = "deprecated" -> load_deprecated(c, d)
      [] attr = "masked_use" -> load_masked_use(c, d)
      [] attr = "forced_use" -> load_forced_use(c, d)
      [] attr = "pkg_use" -> load_pkg_use(c, d)
      [] attr = "pkg_use_force" -> load_pkg_use_force(c, d)
      [] attr = "pkg_use_mask" -> load_pkg_use_mask(c, d)
      [] attr = "default_env" -> load_default_env(c, d)
      [] attr = "bashrc" -> load_bashrc(c, d)
      [] attr = "eapi" -> load_eapi(c, d)
      [] OTHER -> load_eapi_atom(c, d)

\* node.attr
getattr(c, d, attr) ==
    IF c[attr].ld THEN Ok(c, {}, c[attr].v) ELSE getattr_miss(c, d, attr)

\* ------------------------------------------- one ProfileNode: the behaviours

\* what a file of a profile directory may hold: 0 is no file, 3 is a content
\* its loader rejects, the others are well-formed
Content(f, i) ==
    IF i = 0 THEN Missing
    ELSE CASE f = "packages" ->
               File(CASE i = 1 -> << <<"*", "a">>, <<"-", "b">> >>
                      [] i = 2 -> << <<"-", "*", "a">>, <<"b">>,
                                     <<"#", " ", "c">>, <<"*", "b">> >>
                      [] i = 3 -> << <<"-">> >>
                      [] i = 4 -> << <<"-", "*", "a">>, <<"*", "a">>,
                                     <<"-", "b">>, <<"b">> >>
                      [] OTHER -> << <<"*", "b">>, <<"a">> >>)
           [] f = "parent" ->
               File(CASE i = 1 -> << <<"1">> >>
                      [] i = 2 -> << <<"2">>, <<"1">> >>
                      [] OTHER -> << <<"x">> >>)
           [] f = "package.provided" ->
               File(CASE i = 1 -> << <<"k", "/", "a", "-", "1">> >>
                      [] i = 2 -> << <<"-", "k", "/", "a", "-", "1">>,
                                     <<"k", "/", "b", "-", "2">> >>
                      [] i = 3 -> << <<"-">> >>
                      [] i = 4 -> << <<"-", "k", "/", "a", "-", "1">>,
                                     <<"k", "/", "a", "-", "1">> >>
                      [] OTHER -> << <<"k", "/", "a", "-", "2">> >>)
           [] f = "virtuals" ->
               File(CASE i = 1 -> << <<"v", "/", "m", " ", "a">> >>
                      [] i = 2 -> << <<"v", "/", "m", " ", "b">>,
                                     <<"v", "/", "n", " ", " ", "a">> >>
                      [] i = 3 -> << <<"v", "/", "m">> >>
                      [] i = 4 -> << <<"v", "/", "n", " ", "b">> >>
                      [] OTHER -> << <<"v", "/", "m", " ", "a">>,
                                     <<"v", "/", "m", " ", "b">> >>)
           [] f = "package.mask" ->
               File(CASE i = 1 -> << <<"a">> >>
                      [] i = 2 -> << <<"-", "a">>, <<"=", "b", "-", "1">> >>
                      [] i = 3 -> << <<"-">> >>
                      [] i = 4 -> << <<"-", "a">>, <<"a">> >>
                      [] OTHER -> << <<"=", "b", "-", "1">> >>)
           [] f = "deprecated" ->
               File(CASE i = 1 -> << <<"p">> >>
                      [] i = 2 -> << <<"q">>, <<"#", " ", "g">> >>
                      [] i = 3 -> <<>>
                      [] OTHER -> << <<"r">> >>)
           [] f \in {"use.mask", "use.force"} ->
               File(CASE i = 1 -> << <<"f">> >>
                      [] i = 2 -> << <<"-", "f">>, <<"g">> >>
                      [] i = 3 -> << <<"-">> >>
                      [] i = 4 -> << <<"-", "f">>, <<"f">> >>
                      [] OTHER -> << <<"g">> >>)
           [] f \in {"package.use", "package.use.force", "package.use.mask"} ->
               File(CASE i = 1 -> << <<"a", " ", "h">> >>
                      [] i = 2 -> << <<"a", " ", "-", "h", " ", "g">>,
                                     <<"=", "b", "-", "1", " ", "h">> >>
                      [] i = 3 -> << <<"a">> >>
                      [] i = 4 -> << <<"=", "a", "-", "1", " ", "-", "h">>,
                                     <<"a", " ", "h">> >>
                      [] OTHER -> << <<"a", " ", "-", "g">> >>)
           [] f = "make.defaults" ->
               File(CASE i = 1 -> << <<"U", "=", "f">>, <<"F", "=", "f">>,
                                     <<"A", "=", "w">> >>
                      [] i = 2 -> << <<"U", "=", "-", "f", " ", "g">>,
                                     <<"F", "=", "-", "f", " ", "g">>,
                                     <<"A", "=", "x">> >>
                      [] i = 3 -> << <<"U">> >>
                      [] i = 4 -> << <<"U", "=", "-", "*", " ", "g">>,
                                     <<"F", "=", "f">> >>
                      [] OTHER -> << <<"U", "=", "-", "g">>, <<"F", "=", " ">> >>)
           [] f = "eapi" ->
               File(CASE i = 1 -> << <<"0">> >>
                      [] i = 2 -> << <<"1">> >>
                      [] i = 3 -> << <<"9">> >>
                      [] OTHER -> << <<"2">> >>)
           [] OTHER -> File(<<>>)

\* what OnDiskProfile.__getattr__ stores on the instance
ProfAttrs == {"stack", "forced_use", "masked_use", "pkg_use", "bashrc", "system",
              "masks", "default_env", "virtuals", "make_virtuals_repo",
              "provides_repo"}

\* the profile part at rest
ProfIdle ==
    /\ parentsOf = [n \in 0..MaxNodes |-> <<>>]
    /\ layer = [n \in 0..MaxNodes |-> 0]
    /\ loadBase = TRUE
    /\ inst = [a \in ProfAttrs |-> [set |-> FALSE, v |-> <<>>]]
    /\ got = [attr |-> "none", ok |-> TRUE, v |-> <<>>]

NoRead == [attr |-> "none", ok |-> TRUE, v |-> <<>>, t |-> {}, epoch |-> 0,
           again |-> FALSE, hadFailed |-> FALSE, refail |-> FALSE, err |-> ""]

NoFirst == [a \in Attrs |-> [set |-> FALSE, v |-> <<>>]]
NoFailed == [a \in Attrs |-> [set |-> FALSE, err |-> "", epoch |-> 0]]

NodeIdle ==
    /\ disk = [f \in Files |-> Missing]
    /\ cache = EmptyCache
    /\ ret = NoRead
    /\ first = NoFirst
    /\ failed = NoFailed
    /\ nReads = 0
    /\ nWrites = 0

\* a fresh ProfileNode on a directory whose files are all well-formed or all
\* malformed
NodeInit ==
    /\ \E i \in {1, 3} : disk = [f \in Files |-> Content(f, i)]
    /\ cache = EmptyCache
    /\ ret = NoRead
    /\ first = NoFirst
    /\ failed = NoFailed
    /\ nReads = 0
    /\ nWrites = 0

\* node.attr is read
Read(a) ==
    /\ nReads < MaxReads
    /\ \E r \in {getattr(cache, disk, a)} :
          /\ cache' = r.c
          /\ ret' = [attr |-> a, ok |-> r.ok, v |-> r.v, t |-> r.t,
                     epoch |-> nWrites,
                     again |-> first[a].set,
                     hadFailed |-> failed[a].set,
                     refail |-> /\ failed[a].set
                                /\ failed[a].epoch = nWrites
                                /\ ~first[a].set,
                     err |-> failed[a].err]
          /\ first' = IF r.ok /\ ~first[a].set
                      THEN [first EXCEPT ![a] = [set |-> TRUE, v |-> r.v]]
                      ELSE first
          /\ failed' = IF r.ok THEN failed
                       ELSE [failed EXCEPT ![a] =
                                [set |-> TRUE, err |-> r.v, epoch |-> nWrites]]
    /\ nReads' = nReads + 1
    /\ UNCHANGED <<disk, nWrites>>
    /\ UNCHANGED <<profVars, updVars, repoVars, restVars>>

\* the environment replaces, creates or removes a file of the directory
WriteFile(f, i) ==
    /\ nWrites < MaxWrites
    /\ Content(f, i) # disk[f]
    /\ disk' = [disk EXCEPT ![f] = Content(f, i)]
    /\ nWrites' = nWrites + 1
    /\ UNCHANGED <<cache, ret, first, failed, nReads>>
    /\ UNCHANGED <<profVars, updVars, repoVars, restVars>>

NodeNext ==
    \/ \E a \in Attrs : Read(a)
    \/ \E f \in Files, i \in 0..3 : WriteFile(f, i)


\* ------------------------------------------------------------ C1 and C2

\* C1: once a read of a lazily loaded attribute has succeeded, every later
\* read of it returns the value the first read returned and touches no file,
\* whatever was read or written in between.
C1_LoadedIsCached ==
    ret.again =>
        /\ ret.ok
        /\ ret.v = first[ret.attr].v
        /\ ret.t = {}

\* a second read of masks, made after package.mask changed on disk: the value
\* is the one of the first read, which a fresh load would no longer give
C1_Witness ==
    /\ ret.again
    /\ ret.epoch = 1
    /\ ret.attr = "masks"
    /\ disk["package.mask"] = Content("package.mask", 2)
    /\ ret.v # getattr(EmptyCache, disk, "masks").v

\* C2 as stated: after a failed read the attribute is Errored for good; later
\* reads raise again without reading a file.
C2_ErroredIsTerminal ==
    ret.hadFailed => (~ret.ok /\ ret.t = {})

\* C2 as the code has it: a failed read records nothing, the attribute stays
\* unloaded; a read after a failure runs the loader again (it reads files),
\* fails with the same error while the directory is unchanged, and a read
\* that succeeds after a failure leaves the attribute loaded.
C2_FailedReadRecordsNothing ==
    /\ (ret.attr # "none" /\ ~ret.ok) => ~cache[ret.attr].ld
    /\ ret.refail => (~ret.ok /\ ret.v = ret.err /\ ret.t # {})
    /\ (ret.hadFailed /\ ret.ok) => cache[ret.attr].ld

\* a read that fails again after a failed read of the same attribute
C2_Witness ==
    /\ ret.refail
    /\ ~ret.ok
    /\ ret.attr = "forced_use"
    /\ cache["pkg_use_force"].ld

\* ------------------------------------------------------- OnDiskProfile

\* the profile directories; the last one is pjoin(basepath, profile)
Nodes == 1..MaxNodes
Root == MaxNodes
\* EmptyRootNode(basepath): directory 0 is the base path itself
Sentinel == 0

\* what EmptyRootNode sets in __slots__-less class attributes and its property
EmptyRootAttrs == {"parents", "deprecated", "forced_use", "masked_use",
                   "pkg_provided", "visibility", "system", "virtuals"}

EmptyRootValue(a) ==
    CASE a \in {"parents", "deprecated"} -> <<>>
      [] a \in {"forced_use", "masked_use", "virtuals"} -> {}
      [] OTHER -> [neg |-> <<>>, pos |-> <<>>]

\* a sentinel that reads every attribute from the base directory
node_getattr_AllFromDisk(pd, n, a) == getattr(EmptyCache, pd[n], a)

\* getattr(node, a) for a node of the stack
node_getattr(pd, n, a) ==
    IF n = Sentinel /\ a \in EmptyRootAttrs
    THEN Ok(EmptyCache, {}, EmptyRootValue(a))
    ELSE getattr(EmptyCache, pd[n], a)

\* the ProfileNode instances of the directories pd: nodes[n][a] is
\* getattr(node, a) of the node of directory n
ProfileNodes(pd) ==
    [n \in DOMAIN pd |-> [a \in Attrs |-> node_getattr(pd, n, a)]]

RECURSIVE Concat(_)
Concat(ss) == IF ss = <<>> THEN <<>> ELSE Head(ss) \o Concat(Tail(ss))

\* a flattening that yields the node before its parents
RECURSIVE load_stack_f_PreOrder(_, _)
load_stack_f_PreOrder(nodes, n) ==
    LET ps == nodes[n]["parents"].v
    IN <<n>> \o Concat([i \in 1..Len(ps) |-> load_stack_f_PreOrder(nodes, int(ps[i]))])

\* the generator f of _load_stack
RECURSIVE load_stack_f(_, _)
load_stack_f(nodes, n) ==
    LET ps == nodes[n]["parents"].v
    IN Concat([i \in 1..Len(ps) |-> load_stack_f(nodes, int(ps[i]))]) \o <<n>>

load_stack(nodes, base) ==
    IF base THEN <<Sentinel>> \o load_stack_f(nodes, Root) ELSE load_stack_f(nodes, Root)

\* a fold that adds the positives before it removes the negatives
RECURSIVE collapse_generic_UpdateFirst(_, _, _, _)
collapse_generic_UpdateFirst(nodes, st, attr, i) ==
    IF i = 0 THEN {}
    ELSE LET val == nodes[st[i]][attr].v
         IN (collapse_generic_UpdateFirst(nodes, st, attr, i - 1) \cup Range(val.pos))
                \ Range(val.neg)

\* _collapse_generic over the first i nodes of the stack
RECURSIVE collapse_generic(_, _, _, _)
collapse_generic(nodes, st, attr, i) ==
    IF i = 0 THEN {}
    ELSE LET val == nodes[st[i]][attr].v
         IN (collapse_generic(nodes, st, attr, i - 1) \ Range(val.neg))
                \cup Range(val.pos)

collapse_masks(nodes, st) ==
    collapse_generic(nodes, st, "masks", Len(st))
        \cup collapse_generic(nodes, st, "visibility", Len(st))

\* ChunkedDataDict.update_from_mapping: the chunks of each key are appended
update_from_mapping(D, M) ==
    {[k |-> key,
      v |-> (IF key \in Keys(D) THEN Lookup(D, key) ELSE <<>>)
                \o (IF key \in Keys(M) THEN Lookup(M, key) ELSE <<>>)] :
        key \in Keys(D) \cup Keys(M)}

\* a collapse that walks the stack from its last node to its first
RECURSIVE collapse_use_dict_Reversed(_, _, _, _)
collapse_use_dict_Reversed(nodes, st, attr, i) ==
    IF i = 0 THEN {}
    ELSE update_from_mapping(nodes[st[i]][attr].v,
                             collapse_use_dict_Reversed(nodes, st, attr, i - 1))

\* _collapse_use_dict over the first i nodes of the stack
RECURSIVE collapse_use_dict(_, _, _, _)
collapse_use_dict(nodes, st, attr, i) ==
    IF i = 0 THEN {}
    ELSE update_from_mapping(collapse_use_dict(nodes, st, attr, i - 1),
                             nodes[st[i]][attr].v)

\* the concrete packages the rendered payload is asked about
Pkgs == {[key |-> <<"a">>, ver |-> <<"1">>], [key |-> <<"a">>, ver |-> <<"2">>],
         [key |-> <<"b">>, ver |-> <<"1">>], [key |-> <<"c">>, ver |-> <<"1">>]}

\* atom.match(pkg)
atom_match(a, pkg) ==
    /\ atom_key(a.atom) = pkg.key
    /\ atom_ver(a.atom) \in {<<>>, pkg.ver}

\* the toggles of the first i chunks in order; the chunks under AlwaysTrue
\* (every) apply to each package, the others where their atom matches
RECURSIVE apply_chunks(_, _, _, _, _)
apply_chunks(S, chunks, pkg, i, every) ==
    IF i = 0 THEN S
    ELSE LET T == apply_chunks(S, chunks, pkg, i - 1, every)
         IN IF every \/ atom_match(chunks[i].atom, pkg)
            THEN (T \ Range(chunks[i].neg)) \cup Range(chunks[i].pos)
            ELSE T

\* the rendered payload asked for pkg: the global chunks, then those of its key
pull_data(payload, pkg) ==
    LET g == IF AlwaysTrue \in Keys(payload) THEN Lookup(payload, AlwaysTrue) ELSE <<>>
        k == IF pkg.key \in Keys(payload) THEN Lookup(payload, pkg.key) ELSE <<>>
    IN apply_chunks(apply_chunks({}, g, pkg, Len(g), TRUE), k, pkg, Len(k), FALSE)

\* const.incrementals and const.incrementals_unfinalized, as handed to __init__
incrementals == {<<"U">>, <<"F">>}
incrementals_unfinalized == {<<"F">>}

\* incremental_expansion(s, val): -* clears, -x removes x, x adds x
RECURSIVE incremental_expansion(_, _)
incremental_expansion(val, i) ==
    IF i = 0 THEN {}
    ELSE LET T == incremental_expansion(val, i - 1)
         IN IF val[i] = <<"-", "*">> THEN {}
            ELSE IF val[i][1] = "-" THEN T \ {Tail(val[i])}
            ELSE T \cup {val[i]}

\* a first loop in which a key once set is never set again
RECURSIVE collapse_env_loop_FirstWins(_, _, _)
collapse_env_loop_FirstWins(nodes, st, i) ==
    IF i = 0 THEN {}
    ELSE LET d == collapse_env_loop_FirstWins(nodes, st, i - 1)
             env == nodes[st[i]]["default_env"].v
         IN {[k |-> key,
              v |-> IF key \in Keys(d) THEN Lookup(d, key)
                    ELSE IF key \in incrementals THEN split(Lookup(env, key))
                    ELSE Lookup(env, key)] :
                key \in Keys(d) \cup Keys(env)}

\* the first loop of _collapse_env over the first i nodes of the stack
RECURSIVE collapse_env_loop(_, _, _)
collapse_env_loop(nodes, st, i) ==
    IF i = 0 THEN {}
    ELSE LET d == collapse_env_loop(nodes, st, i - 1)
             env == nodes[st[i]]["default_env"].v
         IN {[k |-> key,
              v |-> IF key \notin Keys(env) THEN Lookup(d, key)
                    ELSE IF key \in incrementals
                    THEN (IF key \in Keys(d) THEN Lookup(d, key) ELSE <<>>)
                             \o split(Lookup(env, key))
                    ELSE Lookup(env, key)] :
                key \in Keys(d) \cup Keys(env)}

\* _collapse_env: del d[val] of an empty list raises TypeError (ok = FALSE)
collapse_env(nodes, st) ==
    LET d == collapse_env_loop(nodes, st, Len(st))
        inc == Keys(d) \cap incrementals
        fin(key) == incremental_expansion(Lookup(d, key), Len(Lookup(d, key)))
    IN IF \E key \in inc : Lookup(d, key) = <<>>
       THEN [ok |-> FALSE, v |-> "TypeError"]
       ELSE [ok |-> TRUE,
             v |-> {[k |-> e.k,
                     v |-> IF e.k \in inc /\ e.k \notin incrementals_unfinalized
                           THEN fin(e.k) ELSE e.v] :
                        e \in {x \in d : x.k \in inc /\ x.k \notin incrementals_unfinalized
                                            => fin(x.k) # {}}}]

\* _collapse_virtuals: d.update(profile.virtuals) over the first i nodes
RECURSIVE collapse_virtuals(_, _, _)
collapse_virtuals(nodes, st, i) ==
    IF i = 0 THEN {}
    ELSE LET d == collapse_virtuals(nodes, st, i - 1)
             v == nodes[st[i]]["virtuals"].v
         IN {e \in d : e.k \notin Keys(v)} \cup v

\* a collapse that takes all positives and then removes all negatives
collapse_pkg_provided_Unordered(nodes, st) ==
    LET pos == UNION {Range(nodes[st[i]]["pkg_provided"].v.pos) : i \in 1..Len(st)}
        neg == UNION {Range(nodes[st[i]]["pkg_provided"].v.neg) : i \in 1..Len(st)}
        S == pos \ neg
    IN {[k |-> <<cpv_category(c), cpv_package(c)>>,
         v |-> {cpv_fullver(x) : x \in {y \in S : /\ cpv_category(y) = cpv_category(c)
                                                  /\ cpv_package(y) = cpv_package(c)}}] :
            c \in S}

\* _collapse_pkg_provided: category and package -> the provided versions
collapse_pkg_provided(nodes, st) ==
    LET S == collapse_generic(nodes, st, "pkg_provided", Len(st))
    IN {[k |-> <<cpv_category(c), cpv_package(c)>>,
         v |-> {cpv_fullver(x) : x \in {y \in S : /\ cpv_category(y) = cpv_category(c)
                                                  /\ cpv_package(y) = cpv_package(c)}}] :
            c \in S}

\* tuple(x.bashrc for x in self.stack if x.bashrc is not None)
collapse_bashrc(nodes, st) ==
    LET has(n) == nodes[n]["bashrc"].v # <<>>
    IN SelectSeq(st, has)

\* ------------------------------------------- one OnDiskProfile: behaviours

\* the well-formed contents a profile directory is given
Layers == {0, 1, 2, 4, 5}

BoundedSeq(S, k) == UNION {[1..m -> S] : m \in 0..k}

\* the directories reachable from ns over at most k parent edges
RECURSIVE Reach(_, _, _)
Reach(par, ns, k) ==
    IF k = 0 THEN ns
    ELSE Reach(par, ns \cup UNION {Range(par[n]) : n \in ns}, k - 1)

ParentFile(ps) ==
    IF ps = <<>> THEN Missing ELSE File([i \in 1..Len(ps) |-> NodeDir(ps[i])])

Directory(ps, lay) ==
    [f \in Files |-> IF f = "parent" THEN ParentFile(ps) ELSE Content(f, lay)]

\* the directories on disk: directory -> file name -> [exists, lines]
pdisk == [n \in 0..MaxNodes |-> Directory(parentsOf[n], layer[n])]

\* an acyclic parent graph over the directories (a parent has a lower number),
\* each directory with one of the contents; what the profile cannot reach is
\* left empty, and so is the base path when no sentinel reads it
ProfInit ==
    /\ \E par \in [Nodes -> BoundedSeq(Nodes, MaxParents)] :
         /\ \A n \in Nodes : \A i \in 1..Len(par[n]) : par[n][i] < n
         /\ \A n \in Nodes \ Reach(par, {Root}, MaxNodes) : par[n] = <<>>
         /\ \E lay \in [0..MaxNodes -> Layers], base \in BOOLEAN :
              /\ \A n \in Nodes \ Reach(par, {Root}, MaxNodes) : lay[n] = 0
              /\ lay[0] \in (IF base THEN {0, 1} ELSE {0})
              /\ loadBase = base
              /\ parentsOf = [n \in 0..MaxNodes |-> IF n = 0 THEN <<>> ELSE par[n]]
              /\ layer = lay
    /\ inst = [a \in ProfAttrs |-> [set |-> FALSE, v |-> <<>>]]
    /\ got = [attr |-> "none", ok |-> TRUE, v |-> <<>>]

Set(i, a, v) == [i EXCEPT ![a] = [set |-> TRUE, v |-> v]]

\* self.stack: the instance dict, else _load_stack
get_stack(i, nodes, base) ==
    IF i["stack"].set THEN i["stack"].v ELSE load_stack(nodes, base)

\* the branches of OnDiskProfile.__getattr__, st being what self.stack gives
\* to the branches that read it (every one but path)
profile_getattr_branch(i, nodes, st, attr) ==
    LET i1 == Set(i, "stack", st)
        done(v) == [i |-> Set(i1, attr, v), ok |-> TRUE, v |-> v]
        env(r) == IF r.ok THEN done(r.v) ELSE [i |-> i1, ok |-> FALSE, v |-> r.v]
        virt(d) == [i |-> Set(Set(i1, "virtuals", d), "make_virtuals_repo", d),
                    ok |-> TRUE, v |-> d]
    IN CASE attr = "stack" -> [i |-> i1, ok |-> TRUE, v |-> st]
         [] attr \in {"forced_use", "masked_use", "pkg_use"} ->
                done(collapse_use_dict(nodes, st, attr, Len(st)))
         [] attr = "bashrc" -> done(collapse_bashrc(nodes, st))
         [] attr = "system" -> done(collapse_generic(nodes, st, "system", Len(st)))
         [] attr = "masks" -> done(collapse_masks(nodes, st))
         [] attr = "default_env" -> env(collapse_env(nodes, st))
         [] attr \in {"virtuals", "make_virtuals_repo"} ->
                virt(collapse_virtuals(nodes, st, Len(st)))
         [] attr = "provides_repo" -> done(collapse_pkg_provided(nodes, st))
         [] attr = "path" -> [i |-> i, ok |-> TRUE, v |-> NodeDir(Root)]
         [] OTHER -> [i |-> i, ok |-> FALSE, v |-> "AttributeError"]

\* OnDiskProfile.__getattr__(attr), reached when the instance has no attr
profile_getattr(i, nodes, base, attr) ==
    profile_getattr_branch(i, nodes, get_stack(i, nodes, base), attr)

\* self.attr: the instance dict, else __getattr__
profile_attr(i, attr, loaded) ==
    IF i[attr].set THEN [i |-> i, ok |-> TRUE, v |-> i[attr].v] ELSE loaded

\* a read of profile.attr
GetProfileAttr(attr) ==
    /\ \/ attr = "stack"
       \/ inst[attr].set
       \/ Cardinality({a \in ProfAttrs \ {"stack"} : inst[a].set}) < MaxLoads
    /\ \E r \in {profile_attr(inst, attr,
                              profile_getattr(inst, ProfileNodes(pdisk),
                                              loadBase, attr))} :
         /\ inst' = r.i
         /\ got' = [attr |-> attr, ok |-> r.ok, v |-> r.v]
    /\ UNCHANGED <<parentsOf, layer, loadBase>>
    /\ UNCHANGED <<nodeVars, updVars, repoVars, restVars>>

ProfNext == \E attr \in ProfAttrs : GetProfileAttr(attr)


\* ------------------------------------------------------------ C3 .. C7

\* the stack the profile holds, and what its nodes hold
TheStack == inst["stack"].v
NodeVal(i, attr) == node_getattr(pdisk, TheStack[i], attr).v

\* the length of the flattening of directory n, from the parent files
RECURSIVE SubLen(_)
SubLen(n) ==
    LET ps == parentsOf[n]
        lens == [i \in 1..Len(ps) |-> SubLen(ps[i])]
        RECURSIVE Sum(_)
        Sum(i) == IF i = 0 THEN 0 ELSE lens[i] + Sum(i - 1)
    IN 1 + Sum(Len(ps))

\* the paths from directory m up to directory n along parent edges
RECURSIVE NumPaths(_, _)
NumPaths(m, n) ==
    IF m = n THEN 1
    ELSE LET ps == parentsOf[m]
             RECURSIVE Sum(_)
             Sum(i) == IF i = 0 THEN 0 ELSE NumPaths(ps[i], n) + Sum(i - 1)
         IN Sum(Len(ps))

Count(sq, x) == Cardinality({i \in 1..Len(sq) : sq[i] = x})

\* sq[lo..hi] is the flattening of n: n stands last, and before it stand the
\* flattenings of its parents, one after the other in parent-file order
RECURSIVE IsSubStack(_, _, _, _)
IsSubStack(sq, lo, hi, n) ==
    LET ps == parentsOf[n]
        RECURSIVE Start(_)
        Start(i) == IF i = 1 THEN lo ELSE Start(i - 1) + SubLen(ps[i - 1])
    IN /\ hi - lo + 1 = SubLen(n)
       /\ sq[hi] = n
       /\ \A i \in 1..Len(ps) :
            IsSubStack(sq, Start(i), Start(i) + SubLen(ps[i]) - 1, ps[i])

\* C3: the stack is the depth-first flattening from the profile's own node:
\* the sub-stacks of a node's parents come before the node in parent-file
\* order, the own node is last, a node reachable through k paths appears k
\* times, and the sentinel is the first element exactly when
\* load_profile_base is set.
C3_StackIsFlattening ==
    got.attr = "stack" =>
        LET sq == got.v
            first1 == IF loadBase THEN 2 ELSE 1
        IN /\ got.ok
           /\ Len(sq) >= first1
           /\ loadBase => sq[1] = Sentinel
           /\ \A i \in first1..Len(sq) : sq[i] # Sentinel
           /\ sq[Len(sq)] = Root
           /\ \A n \in Nodes :
                Count(sq, n) = IF n \in Reach(parentsOf, {Root}, MaxNodes)
                               THEN NumPaths(Root, n) ELSE 0
           /\ IsSubStack(sq, first1, Len(sq), Root)

\* a profile with the parents 2 then 1, where 2 has the parent 1
C3_Witness ==
    /\ got.attr = "stack"
    /\ loadBase
    /\ parentsOf[3] = <<2, 1>>
    /\ parentsOf[2] = <<1>>
    /\ got.v = <<0, 1, 2, 1, 3>>

\* what the nodes of the stack hold for attr, in stack order
NodeVals(attr) == [i \in 1..Len(TheStack) |-> NodeVal(i, attr)] \o <<>>

\* x is in the fold of S := (S \ neg) \cup pos over the pairs V: some pair
\* adds it and no later pair removes it without adding it
InFold(x, V) ==
    \E k \in 1..Len(V) :
        /\ x \in Range(V[k].pos)
        /\ \A j \in (k + 1)..Len(V) :
             x \in Range(V[j].neg) => x \in Range(V[j].pos)

AllPos(V) == UNION {Range(V[i].pos) : i \in 1..Len(V)}
AllNeg(V) == UNION {Range(V[i].neg) : i \in 1..Len(V)}
Mentioned(V) == AllPos(V) \cup AllNeg(V)

\* C4: the collapsed system set, and the collapsed masks as the union of
\* the package.mask and the visibility sets, are the ordered fold over the
\* stack of S := (S minus neg) union pos: an entry is in the set exactly when
\* a node adds it and no later node negates it without adding it again.
C4_CollapseIsOrderedFold ==
    /\ got.attr = "system" =>
         LET V == NodeVals("system")
         IN /\ got.v \subseteq Mentioned(V)
            /\ \A x \in Mentioned(V) : x \in got.v <=> InFold(x, V)
    /\ got.attr = "masks" =>
         LET M == NodeVals("masks")
             V == NodeVals("visibility")
         IN /\ got.v \subseteq Mentioned(M) \cup Mentioned(V)
            /\ \A x \in Mentioned(M) \cup Mentioned(V) :
                 x \in got.v <=> (InFold(x, M) \/ InFold(x, V))

\* a mask that one node adds and a later node negates is not in the masks,
\* while a visibility entry negated by one node and added by a later one is
C4_Witness ==
    /\ got.attr = "masks"
    /\ LET M == NodeVals("masks")
           V == NodeVals("visibility")
       IN /\ \E k \in 1..Len(M) : \E j \in (k + 1)..Len(M) :
               /\ plain_atom(<<"a">>) \in Range(M[k].pos)
               /\ plain_atom(<<"a">>) \in Range(M[j].neg)
          /\ plain_atom(<<"a">>) \notin got.v
          /\ eapi_atom(<<"b">>, TRUE) \in got.v
          /\ \E k \in 1..Len(V) : \E j \in (k + 1)..Len(V) :
               /\ eapi_atom(<<"b">>, TRUE) \in Range(V[k].neg)
               /\ eapi_atom(<<"b">>, TRUE) \in Range(V[j].pos)

\* the chunks a node's dict D holds under a key
ChunksOf(D, key) == IF key \in Keys(D) THEN Lookup(D, key) ELSE <<>>

\* the flags the global chunk of a node's dict adds and removes
GlobalPos(D) == UNION {Range(c.pos) : c \in Range(ChunksOf(D, AlwaysTrue))}
GlobalNeg(D) == UNION {Range(c.neg) : c \in Range(ChunksOf(D, AlwaysTrue))}

Flags == {<<"f">>, <<"g">>, <<"h">>}

\* C5: the collapsed forced_use and masked_use hold, under each key, the
\* chunks of the nodes concatenated in stack order; a flag that use.force
\* (use.mask) of one node lists and that of a later node negates, and that no
\* node after that and no per-package chunk of the package's key lists again,
\* is not forced (masked) for the package.
C5_ChunksInStackOrder ==
    got.attr \in {"forced_use", "masked_use"} =>
        LET V == NodeVals(got.attr)
            P == [i \in 1..Len(V) |-> GlobalPos(V[i])] \o <<>>
            N == [i \in 1..Len(V) |-> GlobalNeg(V[i])] \o <<>>
        IN /\ Keys(got.v) = UNION {Keys(V[i]) : i \in 1..Len(V)}
           /\ \A key \in Keys(got.v) :
                Lookup(got.v, key) = Concat([i \in 1..Len(V) |-> ChunksOf(V[i], key)])
           /\ \A flag \in Flags :
                (\E i \in 1..Len(V) : \E j \in (i + 1)..Len(V) :
                    /\ flag \in P[i]
                    /\ flag \in N[j] \ P[j]
                    /\ \A k \in (j + 1)..Len(V) : flag \notin P[k])
                => \A pkg \in Pkgs :
                     (\A c \in Range(ChunksOf(got.v, pkg.key)) : flag \notin Range(c.pos))
                     => flag \notin pull_data(got.v, pkg)

\* the stack [empty, A, B] with f in use.force of A and -f in use.force of B:
\* f is forced for no package
C5_Witness ==
    /\ got.attr = "forced_use"
    /\ TheStack = <<0, 2, 3>>
    /\ <<"f">> \in GlobalPos(NodeVal(2, "forced_use"))
    /\ <<"f">> \in GlobalNeg(NodeVal(3, "forced_use"))
    /\ \A pkg \in Pkgs : <<"f">> \notin pull_data(got.v, pkg)
    /\ \E pkg \in Pkgs : <<"g">> \in pull_data(got.v, pkg)

\* the tokens the nodes' default_env E give a key, in stack order
Tokens(E, key) ==
    Concat([i \in 1..Len(E) |->
              IF key \in Keys(E[i]) THEN split(Lookup(E[i], key)) ELSE <<>>])

\* the tokens that are added and neither removed nor cleared afterwards
Expanded(T) ==
    {x \in Range(T) :
        /\ x[1] # "-"
        /\ \E i \in 1..Len(T) :
             /\ T[i] = x
             /\ \A j \in (i + 1)..Len(T) : T[j] # <<"-">> \o x /\ T[j] # <<"-", "*">>}

\* C6: where collapsing default_env succeeds, a non-incremental key holds
\* the value of the last stack node that sets it, a key of
\* incrementals_unfinalized holds the whitespace-split tokens of all nodes in
\* stack order, and any other incremental key holds the set left by
\* incremental expansion of those tokens (-x removes an earlier x, -* clears
\* everything before it) and is absent when that set is empty.
C6_CollapsedEnv ==
    (got.attr = "default_env" /\ got.ok) =>
        LET E == NodeVals("default_env")
            EnvKeys == UNION {Keys(E[i]) : i \in 1..Len(E)}
        IN /\ Keys(got.v) \subseteq EnvKeys
           /\ \A key \in EnvKeys :
                IF key \notin incrementals
                THEN /\ key \in Keys(got.v)
                     /\ \E i \in 1..Len(E) :
                          /\ key \in Keys(E[i])
                          /\ \A j \in (i + 1)..Len(E) : key \notin Keys(E[j])
                          /\ Lookup(got.v, key) = Lookup(E[i], key)
                ELSE LET T == Tokens(E, key)
                     IN IF key \in incrementals_unfinalized
                        THEN key \in Keys(got.v) /\ Lookup(got.v, key) = T
                        ELSE LET X == Expanded(T)
                             IN IF X = {} THEN key \notin Keys(got.v)
                                ELSE key \in Keys(got.v) /\ Lookup(got.v, key) = X

\* three nodes whose make.defaults give U the tokens f, -f g and -* g
C6_Witness ==
    /\ got.attr = "default_env"
    /\ got.ok
    /\ Tokens(NodeVals("default_env"), <<"U">>)
           = << <<"f">>, <<"-", "f">>, <<"g">>, <<"-", "*">>, <<"g">> >>
    /\ Lookup(got.v, <<"U">>) = {<<"g">>}
    /\ Lookup(got.v, <<"F">>) = << <<"f">>, <<"-", "f">>, <<"g">>, <<"f">> >>
    /\ Lookup(got.v, <<"A">>) = <<"x">>

\* the packages a provides repository holds
Provided(tree) ==
    UNION {{e.k[1] \o <<"/">> \o e.k[2] \o <<"-">> \o v : v \in e.v} : e \in tree}

\* C7 as stated: the collapsed pkg_provided is the union of all positives
\* minus the union of all negatives, whatever the order of the stack.
C7_UnionMinusUnion ==
    got.attr = "provides_repo" =>
        LET V == NodeVals("pkg_provided")
        IN Provided(got.v) = AllPos(V) \ AllNeg(V)

\* C7 as the code has it: the collapsed pkg_provided is the ordered fold over
\* the stack of S := (S minus neg) union pos, so an entry that one node
\* negates and the same or a later node adds is provided.
C7_ProvidedIsOrderedFold ==
    got.attr = "provides_repo" =>
        LET V == NodeVals("pkg_provided")
            S == Provided(got.v)
        IN /\ \A e \in got.v : e.v # {}
           /\ S \subseteq Mentioned(V)
           /\ \A x \in Mentioned(V) : x \in S <=> InFold(x, V)

\* a package that one node negates and a later node provides again
C7_Witness ==
    /\ got.attr = "provides_repo"
    /\ LET V == NodeVals("pkg_provided")
           x == <<"k", "/", "a", "-", "1">>
       IN /\ \E k \in 1..Len(V) : \E j \in (k + 1)..Len(V) :
               x \in Range(V[k].neg) /\ x \in Range(V[j].pos)
          /\ x \in Provided(got.v)
          /\ Provided(got.v) # AllPos(V) \ AllNeg(V)

\* ------------------------------------------------ pkg_updates.read_updates

\* items of a deque: a command tuple, or another deque (by its number)
Cmd(c) == [ref |-> 0, cmd |-> c]
Ref(d) == [ref |-> d, cmd |-> <<>>]

\* valid_updates_re: ^(\d)Q-(\d{4})$
valid_updates_re(name) ==
    /\ Len(name) = 7
    /\ name[1] \in Digits
    /\ name[2] = "Q"
    /\ name[3] = "-"
    /\ \A i \in 4..7 : name[i] \in Digits

\* the sort key (year, quarter) of a valid name, as one number
updates_key(name) == 10 * int(SubSeq(name, 4, 7)) + DigitVal(name[1])

\* _scan_directory: the valid names, sorted by (year, quarter)
RECURSIVE scan_directory(_)
scan_directory(names) ==
    LET ok == {n \in names : valid_updates_re(n)}
    IN IF ok = {} THEN <<>>
       ELSE LET n == CHOOSE x \in ok : \A y \in ok : updates_key(x) <= updates_key(y)
            IN <<n>> \o scan_directory(ok \ {n})

\* iflatten_instance(deque, tuple): the commands of a deque and of the deques
\* in it, depth first
RECURSIVE flatten(_, _)
flatten(h, d) ==
    Concat([i \in 1..Len(h[d]) |->
              IF h[d][i].ref = 0 THEN <<h[d][i].cmd>> ELSE flatten(h, h[d][i].ref)])

\* the state of read_updates: u.heap, u.mods, u.moved
\* mods[key] of the defaultdict: a missing key gets [d, d] for a new deque d
mods_touch(u, key) ==
    IF key \in Keys(u.mods) THEN u
    ELSE [u EXCEPT !.heap = Append(@, <<>>),
                   !.mods = DictPut(@, key, <<Len(u.heap) + 1, Len(u.heap) + 1>>)]

\* deque.append / deque.extend on the last deque of key
tail_extend(u, key, items) ==
    [u EXCEPT !.heap[Lookup(u.mods, key)[2]] = @ \o items]

\* a move that records the command but starts no checkpoint in the target
apply_move_NoCheckpoint(u, src, trg) ==
    LET d == Len(u.heap) + 1
        u0 == [u EXCEPT !.heap = Append(@, <<>>)]
        u1 == tail_extend(mods_touch(u0, atom_key(src)), atom_key(src),
                          <<Cmd(<<<<"m", "o", "v", "e">>, src, trg>>)>>)
        u2 == mods_touch(u1, atom_key(trg))
    IN [u2 EXCEPT !.moved = DictPut(@, atom_key(src), trg)]

\* lines 85-90 of _process_update
apply_move(u, src, trg) ==
    LET d == Len(u.heap) + 1
        u0 == [u EXCEPT !.heap = Append(@, <<>>)]
        u1 == tail_extend(mods_touch(u0, atom_key(src)), atom_key(src),
                          <<Cmd(<<<<"m", "o", "v", "e">>, src, trg>>), Ref(d)>>)
        u2 == tail_extend(mods_touch(u1, atom_key(trg)), atom_key(trg), <<Ref(d)>>)
        u3 == [u2 EXCEPT !.mods = DictPut(@, atom_key(trg),
                                          <<Lookup(u2.mods, atom_key(trg))[1], d>>)]
    IN [u3 EXCEPT !.moved = DictPut(@, atom_key(src), trg)]

\* line 116 of _process_update
apply_slotmove(u, src, line) ==
    tail_extend(mods_touch(u, atom_key(src)), atom_key(src),
                <<Cmd(<<<<"s", "l", "o", "t", "m", "o", "v", "e">>,
                        src \o <<":">> \o line[3], line[4]>>)>>)

Done(u, out) == [u |-> u, out |-> out]

\* a loop body that applies the commands of a key that was already moved
process_update_Revisits(u, raw_line) ==
    LET line == split(raw_line)
    IN IF line = <<>> THEN Done(u, "IndexError")
       ELSE IF line[1] = <<"m", "o", "v", "e">>
       THEN IF Len(line) # 3 THEN Done(u, "error")
            ELSE IF ~AtomOk(line[2]) \/ ~AtomOk(line[3]) THEN Done(u, "MalformedAtom")
            ELSE IF atom_ver(line[2]) # <<>> THEN Done(u, "error")
            ELSE IF atom_ver(line[3]) # <<>> THEN Done(u, "error")
            ELSE Done(apply_move(u, line[2], line[3]), "applied")
       ELSE IF line[1] = <<"s", "l", "o", "t", "m", "o", "v", "e">>
       THEN IF Len(line) # 4 THEN Done(u, "error")
            ELSE IF ~AtomOk(line[2]) THEN Done(u, "MalformedAtom")
            ELSE IF atom_slot(line[2]) # <<>> THEN Done(u, "error")
            ELSE Done(apply_slotmove(u, line[2], line), "applied")
       ELSE Done(u, "ignored")

\* the body of the loop of _process_update for one line: the state after it
\* and what became of the line (applied, logged as error or as redundant,
\* ignored, or the exception that ends read_updates)
process_update(u, raw_line) ==
    LET line == split(raw_line)
    IN IF line = <<>> THEN Done(u, "IndexError")
       ELSE IF line[1] = <<"m", "o", "v", "e">>
       THEN IF Len(line) # 3 THEN Done(u, "error")
            ELSE IF ~AtomOk(line[2]) \/ ~AtomOk(line[3]) THEN Done(u, "MalformedAtom")
            ELSE IF atom_ver(line[2]) # <<>> THEN Done(u, "error")
            ELSE IF atom_ver(line[3]) # <<>> THEN Done(u, "error")
            ELSE IF atom_key(line[2]) \in Keys(u.moved) THEN Done(u, "redundant")
            ELSE Done(apply_move(u, line[2], line[3]), "applied")
       ELSE IF line[1] = <<"s", "l", "o", "t", "m", "o", "v", "e">>
       THEN IF Len(line) # 4 THEN Done(u, "error")
            ELSE IF ~AtomOk(line[2]) THEN Done(u, "MalformedAtom")
            ELSE IF atom_key(line[2]) \in Keys(u.moved) THEN Done(u, "redundant")
            ELSE IF atom_slot(line[2]) # <<>> THEN Done(u, "error")
            ELSE Done(apply_slotmove(u, line[2], line), "applied")
       ELSE Done(u, "ignored")

\* line 50 of read_updates: every key of mods with its flattened commands
flat_commands(u) ==
    {[k |-> e.k, v |-> flatten(u.heap, e.v[1])] : e \in u.mods}

\* a result that keeps the keys without commands
read_result_Unfiltered(u) == flat_commands(u)

\* lines 50-54 of read_updates
read_result(u) == {e \in flat_commands(u) : e.v # <<>>}

\* --------------------------------------------- one read_updates: behaviours

RECURSIVE Words(_)
Words(ws) == IF Len(ws) = 1 THEN ws[1] ELSE ws[1] \o <<" ">> \o Words(Tail(ws))

MOVE == <<"m", "o", "v", "e">>
SLOTMOVE == <<"s", "l", "o", "t", "m", "o", "v", "e">>

\* the package keys the update files speak of
UKeys == {<<"k", "/", "a">>, <<"k", "/", "b">>, <<"k", "/", "c">>}

MoveLine(a, b) == Words(<<MOVE, a, b>>)

\* the lines an update file may hold: every move and slotmove over the keys,
\* and one line for each way a line is rejected or passed over
UpdateLines ==
    {MoveLine(a, b) : a \in UKeys, b \in UKeys}
    \cup {Words(<<SLOTMOVE, a, <<"0">>, <<"1">>>>) : a \in UKeys}
    \cup {Words(<<MOVE, <<"k", "/", "a">>>>),
          Words(<<MOVE, <<"=", "k", "/", "a", "-", "1">>, <<"k", "/", "b">>>>),
          Words(<<MOVE, <<"k", "/", "a">>, <<"=", "k", "/", "b", "-", "1">>>>),
          Words(<<SLOTMOVE, <<"k", "/", "a">>, <<"0">>>>),
          Words(<<SLOTMOVE, <<"k", "/", "a", ":", "0">>, <<"0">>, <<"1">>>>),
          <<"n", "o", "p">>,
          <<>>}

\* the names the updates directory may hold
UpdateNames == {<<"1", "Q", "-", "2", "0", "1", "0">>,
                <<"2", "Q", "-", "2", "0", "0", "9">>,
                <<"5", "Q", "-", "2", "0", "0", "9">>,
                <<"Q", "1", "-", "2", "0", "1", "0">>}

UpdIdle ==
    /\ updPc = "start"
    /\ pending = <<>>
    /\ heap = <<>>
    /\ mods = {}
    /\ moved = {}
    /\ hist = <<>>
    /\ commands = {}

\* read_updates(path) is called on some directory
UpdInit == UpdIdle

TheUpdates == [heap |-> heap, mods |-> mods, moved |-> moved]

\* the directory does not exist: listdir_files raises FileNotFoundError,
\* read_updates catches it and returns what mods holds
ScanMissing ==
    /\ updPc = "start"
    /\ updPc' = "done"
    /\ commands' = read_result(TheUpdates)
    /\ UNCHANGED <<pending, heap, mods, moved, hist>>
    /\ UNCHANGED <<nodeVars, profVars, repoVars, restVars>>

\* _scan_directory(path) on a directory that holds the files names
ScanDirectory(names) ==
    /\ updPc = "start"
    /\ updPc' = "lines"
    /\ pending' = scan_directory(names)
    /\ UNCHANGED <<heap, mods, moved, hist, commands>>
    /\ UNCHANGED <<nodeVars, profVars, repoVars, restVars>>

\* the next line of the file being read goes through _process_update
ProcessLine(raw_line) ==
    /\ updPc = "lines"
    /\ pending # <<>>
    /\ Len(hist) < MaxLines
    /\ LET r == process_update(TheUpdates, raw_line)
       IN /\ heap' = r.u.heap
          /\ mods' = r.u.mods
          /\ moved' = r.u.moved
          /\ hist' = Append(hist, [line |-> raw_line, out |-> r.out,
                                   same |-> flat_commands(r.u) = flat_commands(TheUpdates)])
          /\ updPc' = IF r.out \in {"IndexError", "MalformedAtom"} THEN "raised"
                      ELSE "lines"
    /\ UNCHANGED <<pending, commands>>
    /\ UNCHANGED <<nodeVars, profVars, repoVars, restVars>>

\* the file being read has no more lines
EndOfFile ==
    /\ updPc = "lines"
    /\ pending # <<>>
    /\ pending' = Tail(pending)
    /\ UNCHANGED <<updPc, heap, mods, moved, hist, commands>>
    /\ UNCHANGED <<nodeVars, profVars, repoVars, restVars>>

\* a file of the listing is gone when it is opened: FileNotFoundError, caught
FileVanished ==
    /\ updPc = "lines"
    /\ pending # <<>>
    /\ updPc' = "done"
    /\ commands' = read_result(TheUpdates)
    /\ UNCHANGED <<pending, heap, mods, moved, hist>>
    /\ UNCHANGED <<nodeVars, profVars, repoVars, restVars>>

\* all files are read: the result is built and returned
Return ==
    /\ updPc = "lines"
    /\ pending = <<>>
    /\ updPc' = "done"
    /\ commands' = read_result(TheUpdates)
    /\ UNCHANGED <<pending, heap, mods, moved, hist>>
    /\ UNCHANGED <<nodeVars, profVars, repoVars, restVars>>

UpdNext ==
    \/ ScanMissing
    \/ \E names \in SUBSET UpdateNames :
         ScanDirectory(names)
    \/ \E raw_line \in UpdateLines :
         ProcessLine(raw_line)
    \/ EndOfFile
    \/ FileVanished
    \/ Return

\* ------------------------------------- UnconfiguredTree._pkg_filter

\* the packages of the repository, in the order itermatch walks them
RepoPkgs == <<"a-1", "a-2", "b-1">>

\* what evaluating a package's metadata does: nothing wrong, EAPI not
\* supported, MetadataException from is_supported, data or required_use,
\* FileNotFoundError from data, or another exception
Kinds == {"ok", "unsupported", "bad_eapi", "bad_data", "bad_required_use",
          "missing", "oserror"}

MetadataException(pkg, attr) == [pkg |-> pkg, attr |-> attr]

\* pkg in self._masked.itermatch(pkg.versioned_atom)
masked_has(m, pkg) == pkg \in Keys(m)

Filtered(m, out, evaluated) == [m |-> m, out |-> out, evaluated |-> evaluated]

\* a loop body that records nothing for an unsupported EAPI
pkg_filter_body_NoRecord(m, kind, pkg) ==
    IF masked_has(m, pkg) THEN Filtered(m, "skip", FALSE)
    ELSE CASE kind = "unsupported" -> Filtered(m, "mask", TRUE)
           [] kind = "bad_eapi" ->
                Filtered(DictPut(m, pkg, MetadataException(pkg, "eapi")), "mask", TRUE)
           [] kind = "bad_data" ->
                Filtered(DictPut(m, pkg, MetadataException(pkg, "depend")), "mask", TRUE)
           [] kind = "bad_required_use" ->
                Filtered(DictPut(m, pkg, MetadataException(pkg, "required_use")), "mask", TRUE)
           [] kind = "missing" ->
                Filtered(DictPut(m, pkg, MetadataException(pkg, "data")), "mask", TRUE)
           [] kind = "oserror" -> Filtered(m, "raise", TRUE)
           [] OTHER -> Filtered(m, "yield", TRUE)

\* the body of the loop of _pkg_filter for one package: the _masked
\* repository after it, and whether the package is passed over (it is
\* masked already), masked now, yielded, or ends the generator with the
\* exception that is neither MetadataException nor FileNotFoundError
pkg_filter_body(m, kind, pkg) ==
    IF masked_has(m, pkg) THEN Filtered(m, "skip", FALSE)
    ELSE CASE kind \in {"unsupported", "bad_eapi"} ->
                Filtered(DictPut(m, pkg, MetadataException(pkg, "eapi")), "mask", TRUE)
           [] kind = "bad_data" ->
                Filtered(DictPut(m, pkg, MetadataException(pkg, "depend")), "mask", TRUE)
           [] kind = "bad_required_use" ->
                Filtered(DictPut(m, pkg, MetadataException(pkg, "required_use")), "mask", TRUE)
           [] kind = "missing" ->
                Filtered(DictPut(m, pkg, MetadataException(pkg, "data")), "mask", TRUE)
           [] kind = "oserror" -> Filtered(m, "raise", TRUE)
           [] OTHER -> Filtered(m, "yield", TRUE)

\* one next() of the generator: the loop runs over todo until a package is
\* yielded, the list ends or an exception leaves the generator
RECURSIVE pkg_filter_next(_, _, _, _)
pkg_filter_next(m, ev, kinds, todo) ==
    IF todo = <<>> THEN [m |-> m, ev |-> ev, todo |-> <<>>, out |-> "stop", pkg |-> ""]
    ELSE LET pkg == Head(todo)
             r == pkg_filter_body(m, kinds[pkg], pkg)
             ev1 == IF r.evaluated THEN [ev EXCEPT ![pkg] = @ + 1] ELSE ev
         IN IF r.out \in {"yield", "raise"}
            THEN [m |-> r.m, ev |-> ev1, todo |-> Tail(todo), out |-> r.out, pkg |-> pkg]
            ELSE pkg_filter_next(r.m, ev1, kinds, Tail(todo))

\* ------------------------------------------- one repository: behaviours

\* the restrictions itermatch is called with, as the packages they match
Restricts == {{"a-1", "a-2", "b-1"}, {"a-1", "a-2"}, {"b-1"}}

NoIter == [state |-> "none", matched |-> <<>>, todo |-> <<>>, yielded |-> <<>>]

RepoIdle ==
    /\ pkgKind = [p \in Range(RepoPkgs) |-> "ok"]
    /\ masked = {}
    /\ iters = [i \in 1..MaxIters |-> NoIter]
    /\ evals = [p \in Range(RepoPkgs) |-> 0]

\* a fresh repository over packages of any kind
RepoInit ==
    /\ pkgKind \in [Range(RepoPkgs) -> Kinds]
    /\ masked = {}
    /\ iters = [i \in 1..MaxIters |-> NoIter]
    /\ evals = [p \in Range(RepoPkgs) |-> 0]

\* repo.itermatch(restrict): a generator over the matching packages, piped
\* through _pkg_filter; nothing runs before its first next()
Itermatch(i, restrict) ==
    /\ iters[i].state = "none"
    /\ LET InRestrict(p) == p \in restrict
           l == SelectSeq(RepoPkgs, InRestrict)
       IN iters' = [iters EXCEPT ![i] =
                      [state |-> "running", matched |-> l, todo |-> l, yielded |-> <<>>]]
    /\ UNCHANGED <<pkgKind, masked, evals>>
    /\ UNCHANGED <<nodeVars, profVars, updVars, restVars>>

\* next() on a generator
IterNext(i) ==
    /\ iters[i].state = "running"
    /\ LET r == pkg_filter_next(masked, evals, pkgKind, iters[i].todo)
       IN /\ masked' = r.m
          /\ evals' = r.ev
          /\ iters' = [iters EXCEPT ![i] =
                         [state |-> CASE r.out = "stop" -> "exhausted"
                                      [] r.out = "raise" -> "failed"
                                      [] OTHER -> "running",
                          matched |-> @.matched,
                          todo |-> r.todo,
                          yielded |-> IF r.out = "yield" THEN Append(@.yielded, r.pkg)
                                      ELSE @.yielded]]
    /\ UNCHANGED pkgKind
    /\ UNCHANGED <<nodeVars, profVars, updVars, restVars>>

RepoNext ==
    \/ \E i \in 1..MaxIters, restrict \in Restricts : Itermatch(i, restrict)
    \/ \E i \in 1..MaxIters : IterNext(i)

\* ------------------------------------------------------------ C8 .. C10

MoveCmd(a, b) == <<MOVE, a, b>>

\* the flattened command list the result holds for a key
ListOf(key) == IF key \in Keys(commands) THEN Lookup(commands, key) ELSE <<>>

InOrder(l, x, y) ==
    \E i \in 1..Len(l) : \E j \in (i + 1)..Len(l) : l[i] = x /\ l[j] = y

\* line k of the updates is a move of key a, read after line i
LaterMoveOf(a, i, k) ==
    /\ k \in (i + 1)..Len(hist)
    /\ \E x \in UKeys : hist[k].line = MoveLine(a, x)

\* C8 as stated: whenever the updates hold move A B and later move B C, the
\* list of A holds move A B followed by move B C, and every later move of A
\* is dropped as redundant and changes no list.
C8_MovesChain ==
    updPc = "done" =>
        \A a \in UKeys, b \in UKeys, c \in UKeys :
            \A i \in 1..Len(hist) : \A j \in (i + 1)..Len(hist) :
                (hist[i].line = MoveLine(a, b) /\ hist[j].line = MoveLine(b, c))
                => /\ InOrder(ListOf(a), MoveCmd(a, b), MoveCmd(b, c))
                   /\ \A k \in 1..Len(hist) :
                        LaterMoveOf(a, i, k) => hist[k].out = "redundant" /\ hist[k].same

\* C8 as the code has it: the list of A holds move A B followed by move B C
\* when neither of the two lines is itself redundant (A was not moved before
\* move A B, B was not moved before move B C); every move of A read after a
\* move A B is dropped as redundant and changes no key's command list.
C8_AppliedMovesChain ==
    /\ updPc = "done" =>
         \A a \in UKeys, b \in UKeys, c \in UKeys :
             \A i \in 1..Len(hist) : \A j \in (i + 1)..Len(hist) :
                 ( /\ hist[i].line = MoveLine(a, b) /\ hist[i].out = "applied"
                   /\ hist[j].line = MoveLine(b, c) /\ hist[j].out = "applied" )
                 => InOrder(ListOf(a), MoveCmd(a, b), MoveCmd(b, c))
    /\ \A a \in UKeys, b \in UKeys :
         \A i \in 1..Len(hist) :
             hist[i].line = MoveLine(a, b)
             => \A k \in 1..Len(hist) :
                  LaterMoveOf(a, i, k) => hist[k].out = "redundant" /\ hist[k].same

\* move k/a k/b, move k/b k/c, move k/a k/c: the third line is dropped
C8_Witness ==
    /\ updPc = "done"
    /\ Len(hist) = 3
    /\ hist[1].line = MoveLine(<<"k", "/", "a">>, <<"k", "/", "b">>)
    /\ hist[2].line = MoveLine(<<"k", "/", "b">>, <<"k", "/", "c">>)
    /\ hist[3].line = MoveLine(<<"k", "/", "a">>, <<"k", "/", "c">>)
    /\ hist[1].out = "applied" /\ hist[2].out = "applied"
    /\ hist[3].out = "redundant" /\ hist[3].same
    /\ ListOf(<<"k", "/", "a">>)
           = <<MoveCmd(<<"k", "/", "a">>, <<"k", "/", "b">>),
               MoveCmd(<<"k", "/", "b">>, <<"k", "/", "c">>)>>

\* C9: the mapping read_updates returns has no key with an empty command
\* list; without any line read (a missing directory, no or empty files) it
\* is empty, and after the single line move A B it holds exactly the key A
\* with that one move.
C9_NoEmptyLists ==
    updPc = "done" =>
        /\ \A e \in commands : e.v # <<>>
        /\ Cardinality(Keys(commands)) = Cardinality(commands)
        /\ hist = <<>> => commands = {}
        /\ \A a \in UKeys, b \in UKeys :
             (Len(hist) = 1 /\ hist[1].line = MoveLine(a, b))
             => commands = {[k |-> a, v |-> <<MoveCmd(a, b)>>]}

\* the single line move k/a k/b: mods has the target key, the result has not
C9_Witness ==
    /\ updPc = "done"
    /\ Len(hist) = 1
    /\ hist[1].line = MoveLine(<<"k", "/", "a">>, <<"k", "/", "b">>)
    /\ <<"k", "/", "b">> \in Keys(mods)
    /\ Keys(commands) = {<<"k", "/", "a">>}

Invalid(p) == pkgKind[p] \notin {"ok", "oserror"}
IsOk(p) == pkgKind[p] = "ok"

\* the packages a generator has gone through
Processed(it) == SubSeq(it.matched, 1, Len(it.matched) - Len(it.todo))

\* C10: a package whose metadata is invalid or whose EAPI is unsupported is
\* recorded in _masked with a MetadataException when an itermatch first comes
\* to it; it is then passed over by every itermatch without its metadata
\* being evaluated again, it is never yielded, and the generator that found
\* it goes on and yields the valid packages after it.
C10_MaskedOnce ==
    /\ \A e \in masked :
         /\ Invalid(e.k)
         /\ e.v.pkg = e.k
         /\ e.v.attr = CASE pkgKind[e.k] \in {"unsupported", "bad_eapi"} -> "eapi"
                         [] pkgKind[e.k] = "bad_data" -> "depend"
                         [] pkgKind[e.k] = "bad_required_use" -> "required_use"
                         [] OTHER -> "data"
    /\ \A p \in Range(RepoPkgs) :
         Invalid(p) => /\ evals[p] <= 1
                       /\ evals[p] = 1 <=> p \in Keys(masked)
    /\ \A i \in 1..MaxIters :
         /\ iters[i].yielded = SelectSeq(Processed(iters[i]), IsOk)
         /\ \A p \in Range(Processed(iters[i])) : Invalid(p) => p \in Keys(masked)
         /\ iters[i].state = "exhausted" => iters[i].todo = <<>>
         /\ iters[i].state = "failed" =>
              pkgKind[Processed(iters[i])[Len(Processed(iters[i]))]] = "oserror"

\* two generators over a repository whose first package has an unsupported
\* EAPI: both yield the package after it, the metadata was evaluated once
C10_Witness ==
    /\ pkgKind["a-1"] = "unsupported"
    /\ pkgKind["a-2"] = "ok"
    /\ iters[1].matched = RepoPkgs
    /\ iters[2].matched = <<"a-1", "a-2">>
    /\ iters[1].yielded = <<"a-2">>
    /\ iters[2].yielded = <<"a-2">>
    /\ evals["a-1"] = 1
    /\ evals["a-2"] = 2
    /\ "a-1" \in Keys(masked)

\* -------------------------------------------------- WeakInstMeta classes

\* objects created in a behaviour
MaxObjs == 4
\* references a caller holds to one object
MaxRefs == 2

Classes == {"ProfileNode", "EmptyRootNode", "UserProfileNode"}

\* the class body sets __inst_caching__ = True
sets_inst_caching(kls) == kls \in {"ProfileNode", "EmptyRootNode"}

\* a metaclass that lets a subclass inherit the flag of its base
inst_caching_Inherited(kls) == TRUE

\* cls.__inst_caching__ as WeakInstMeta leaves it: what the class body set
inst_caching(kls) == sets_inst_caching(kls)

\* os.path.isdir(path)
isdir(path) == path \in {<<"1">>, <<"2">>}

\* the arguments of a construction: one path, a path by keyword, two paths
Positional(ps) == [pos |-> ps, kw |-> {}]
Keyword(p) == [pos |-> <<>>, kw |-> {[k |-> "path", v |-> p]}]

\* the constructions made: of a profile directory, by position and by
\* keyword, of a directory that does not exist, of the base path, of a user
\* profile, and of a user profile without its parent path
Calls ==
    {[kls |-> "ProfileNode", args |-> Positional(<<<<"1">>>>)],
     [kls |-> "ProfileNode", args |-> Keyword(<<"1">>)],
     [kls |-> "ProfileNode", args |-> Positional(<<<<"9">>>>)],
     [kls |-> "EmptyRootNode", args |-> Positional(<<<<"2">>>>)],
     [kls |-> "UserProfileNode", args |-> Positional(<<<<"1">>, <<"2">>>>)],
     [kls |-> "UserProfileNode", args |-> Positional(<<<<"1">>>>)]}

\* the arguments fit the signature of __init__
init_binds(kls, args) ==
    IF kls = "UserProfileNode"
    THEN Len(args.pos) = 2 /\ args.kw = {}
    ELSE Len(args.pos) + Cardinality(args.kw) = 1

init_path(args) ==
    IF args.pos # <<>> THEN args.pos[1] ELSE Lookup(args.kw, "path")

\* __init__: TypeError for a bad call, ProfileError for a missing directory
init_outcome(kls, args) ==
    IF ~init_binds(kls, args) THEN "TypeError"
    ELSE IF ~isdir(init_path(args)) THEN "ProfileError"
    ELSE "ok"

\* cls.__inst_dict__.get(key) when the construction may use the cache: the
\* cached object, or 0
cached_instance(D, kls, args, disable) ==
    IF inst_caching(kls) /\ ~disable /\ args \in Keys(D[kls])
    THEN Lookup(D[kls], args) ELSE 0

\* a dictionary that keeps the entry of an object nobody references
weak_purge_Strong(D, id) == D

\* the weak dictionaries once object id is collected
weak_purge(D, id) == [kls \in Classes |-> {e \in D[kls] : e.v # id}]

NoMade == [kls |-> "none", args |-> <<>>, disable |-> FALSE, out |-> "none",
           id |-> 0, fresh |-> FALSE, prior |-> {}]

CacheIdle ==
    /\ objs = <<>>
    /\ instDict = [kls \in Classes |-> {}]
    /\ made = NoMade

CacheInit == CacheIdle

\* the objects of kls made through the cache with these arguments that are
\* still referenced
LivePrior(kls, args) ==
    {i \in 1..Len(objs) : /\ objs[i].refs > 0 /\ objs[i].cached
                            /\ objs[i].kls = kls /\ objs[i].args = args}

Made(kls, args, disable, out, id, fresh) ==
    [kls |-> kls, args |-> args, disable |-> disable, out |-> out, id |-> id,
     fresh |-> fresh, prior |-> LivePrior(kls, args)]

\* kls(*args, disable_inst_caching=disable) returns the cached object hit
ReturnCached(kls, args, disable, hit) ==
    /\ hit # 0
    /\ objs[hit].refs < MaxRefs
    /\ objs' = [objs EXCEPT ![hit].refs = @ + 1]
    /\ made' = Made(kls, args, disable, "ok", hit, FALSE)
    /\ UNCHANGED instDict

\* kls(*args, disable_inst_caching=disable) finds nothing cached and
\* __init__ raises
RaiseInit(kls, args, disable, hit) ==
    /\ hit = 0
    /\ init_outcome(kls, args) # "ok"
    /\ made' = Made(kls, args, disable, init_outcome(kls, args), 0, FALSE)
    /\ UNCHANGED <<objs, instDict>>

\* kls(*args, disable_inst_caching=disable) creates an object, and stores
\* it when the construction may use the cache
CreateNew(kls, args, disable, hit) ==
    /\ hit = 0
    /\ init_outcome(kls, args) = "ok"
    /\ Len(objs) < MaxObjs
    /\ objs' = Append(objs, [kls |-> kls, args |-> args, refs |-> 1,
                             cached |-> inst_caching(kls) /\ ~disable])
    /\ instDict' = IF inst_caching(kls) /\ ~disable
                   THEN [instDict EXCEPT ![kls] = DictPut(@, args, Len(objs) + 1)]
                   ELSE instDict
    /\ made' = Made(kls, args, disable, "ok", Len(objs) + 1, TRUE)

\* WeakInstMeta.__call__
Construct(kls, args, disable) ==
    /\ \E hit \in {cached_instance(instDict, kls, args, disable)} :
         \/ ReturnCached(kls, args, disable, hit)
         \/ RaiseInit(kls, args, disable, hit)
         \/ CreateNew(kls, args, disable, hit)
    /\ UNCHANGED notCache

\* del o: a reference is dropped; the object is collected with its last one
DelRef(id) ==
    /\ objs[id].refs > 0
    /\ objs' = [objs EXCEPT ![id].refs = @ - 1]
    /\ instDict' = IF objs[id].refs = 1 THEN weak_purge(instDict, id) ELSE instDict
    /\ UNCHANGED made
    /\ UNCHANGED notCache

CacheNext ==
    \/ \E call \in Calls, disable \in BOOLEAN :
         Construct(call.kls, call.args, disable)
    \/ \E id \in 1..Len(objs) : DelRef(id)

\* ---------------------------------------------------------- C11 and C12

C12_DisabledIsNeverCached ==
    /\ (made.out = "ok" /\ made.disable) => made.fresh
    /\ \A i \in 1..Len(objs) :
         ~objs[i].cached =>
             /\ objs[i].refs <= 1
             /\ \A kls \in Classes : \A e \in instDict[kls] : e.v # i
    /\ (made.out = "ok" /\ made.kls = "UserProfileNode") => made.fresh
    /\ instDict["UserProfileNode"] = {}
    /\ (made.out = "ok" /\ made.kls = "EmptyRootNode" /\ ~made.disable
            /\ made.prior # {}) => ~made.fresh

\* a cached ProfileNode("1") is referenced, ProfileNode("1",
\* disable_inst_caching=True) made another object, and two calls of
\* UserProfileNode("1", "2") made two objects that are both referenced
C12_Witness ==
    /\ Len(objs) = 4
    /\ objs[1].kls = "ProfileNode" /\ objs[1].cached /\ objs[1].refs > 0
    /\ objs[2].kls = "ProfileNode" /\ objs[2].args = objs[1].args
    /\ ~objs[2].cached
    /\ objs[3].kls = "UserProfileNode" /\ objs[4].kls = "UserProfileNode"
    /\ objs[3].args = objs[4].args
    /\ objs[3].refs > 0 /\ objs[4].refs > 0
    /\ made.kls = "UserProfileNode" /\ made.fresh /\ ~made.disable

\* ------------------------------------------------------------------------
\* scripts/pmerge.py: one call of main(options, out, err).
\*
\* A package is [category, package, fullver]; categories and package names
\* are single letters, ordered as the strings are.  The vdb is the sequence
\* of the installed packages in the order they were installed.  A token is
\* [category, package], category "" when the token names no category.
\* parserestrict.parse_match, vdb.match and the ordering of packages are
\* not in this source tree; they are modelled as the spec describes them.

\* packages installed at most
MaxInstalled == 3
\* tokens on the command line at most
MaxTargets == 2

Pkg(c, p, v) == [category |-> c, package |-> p, fullver |-> v]

AllPkgs == {Pkg("a", "x", 1), Pkg("b", "x", 1), Pkg("a", "y", 1)}

Token(c, p) == [category |-> c, package |-> p]

\* "w" is the name of the world set, no package has that name
TargetTokens == {Token("", "x"), Token("a", "x"), Token("", "y"), Token("", "w")}

StrRank == [a |-> 1, b |-> 2, w |-> 3, x |-> 4, y |-> 5]

pkg_key(pkg) == <<pkg.category, pkg.package>>

\* the order of packages: category, then package, then version
cpv_lt(p, q) ==
    \/ StrRank[p.category] < StrRank[q.category]
    \/ /\ p.category = q.category
       /\ \/ StrRank[p.package] < StrRank[q.package]
          \/ p.package = q.package /\ p.fullver < q.fullver

RECURSIVE sorted(_)
sorted(S) ==
    IF S = {} THEN <<>>
    ELSE LET m == CHOOSE m \in S : \A q \in S \ {m} : cpv_lt(m, q)
         IN <<m>> \o sorted(S \ {m})

\* repo.match(parse_match(token)) over a set of packages
match(pkgs, token) ==
    {p \in pkgs : /\ p.package = token.package
                  /\ token.category \in {"", p.category}}

Installed(v) == {v[i] : i \in DOMAIN v}

\* a token loop that skips a token without matches
RECURSIVE unmerge_tokens_Skip(_, _, _, _)
unmerge_tokens_Skip(pkgs, tokens, i, all_matches) ==
    IF i > Len(tokens) THEN [err |-> "", matches |-> all_matches]
    ELSE unmerge_tokens_Skip(pkgs, tokens, i + 1,
                             all_matches \cup match(pkgs, tokens[i]))

\* lines 189-208: the token loop of unmerge from token i on, all_matches
\* being what the tokens before i matched
RECURSIVE unmerge_tokens(_, _, _, _)
unmerge_tokens(pkgs, tokens, i, all_matches) ==
    IF i > Len(tokens) THEN [err |-> "", matches |-> all_matches]
    ELSE IF match(pkgs, tokens[i]) = {}
         THEN [err |-> "Failure", matches |-> all_matches]
    ELSE IF Cardinality({p.category : p \in match(pkgs, tokens[i])}) > 1
         THEN [err |-> "ParseError", matches |-> all_matches]
    ELSE unmerge_tokens(pkgs, tokens, i + 1,
                        all_matches \cup match(pkgs, tokens[i]))

\* lines 235-248: the uninstall loop; rets[i] is what op.finish() returns
\* for the i-th match, world whether a world set was passed.  The result is
\* the error and the uninstalls issued, each with whether world_set.remove
\* was called for its unversioned atom.
RECURSIVE unmerge_loop(_, _, _, _, _, _)
unmerge_loop(matches, rets, ignore_failures, world, i, done) ==
    IF i > Len(matches) THEN [err |-> "", ops |-> done]
    ELSE IF ~rets[i] /\ ~ignore_failures
         THEN [err |-> "Failure",
               ops |-> Append(done, [pkg |-> matches[i], ret |-> FALSE,
                                     world |-> FALSE])]
    ELSE unmerge_loop(matches, rets, ignore_failures, world, i + 1,
                      Append(done, [pkg |-> matches[i], ret |-> rets[i],
                                    world |-> world]))

\* unmerge: lines 187-248.  answer is what userquery returns, "Failure" when
\* it raises; the result is the error raised and the uninstalls issued
unmerge_body(tk, opts, frozen, answer, rets) ==
    IF tk.err # "" THEN [err |-> tk.err, ops |-> <<>>]
    ELSE IF opts.pretend THEN [err |-> "", ops |-> <<>>]
    ELSE IF opts.ask /\ answer = "Failure" THEN [err |-> "Failure", ops |-> <<>>]
    ELSE IF opts.ask /\ answer = "No" THEN [err |-> "", ops |-> <<>>]
    ELSE IF frozen /\ ~opts.force THEN [err |-> "Failure", ops |-> <<>>]
    ELSE unmerge_loop(sorted(tk.matches), rets, opts.ignore_failures,
                      ~opts.oneshot, 1, <<>>)

unmerge(pkgs, tokens, opts, frozen, answer, rets) ==
    unmerge_body(unmerge_tokens(pkgs, tokens, 1, {}), opts, frozen, answer, rets)

\* lines 226-231: vdb.frozen after unmerge
unmerge_frozen(tk, opts, frozen, answer) ==
    IF /\ tk.err = ""
       /\ ~opts.pretend
       /\ opts.ask => answer = "Yes"
       /\ opts.force
    THEN FALSE ELSE frozen

\* get_pkgset, lines 260-266: the atoms of the set, or None
WorldAtoms == << <<"a", "y">> >>

\* parse_atom(token, repo, return_none=True) for a token without version
\* operators, lines 101-140
parse_atom(pkgs, token) ==
    IF Cardinality({pkg_key(p) : p \in match(pkgs, token)}) > 1
    THEN [err |-> "AmbiguousQuery", atom |-> <<>>]
    ELSE IF match(pkgs, token) = {} THEN [err |-> "None", atom |-> <<>>]
    ELSE [err |-> "", atom |-> pkg_key(CHOOSE p \in match(pkgs, token) : TRUE)]

\* lists.stable_unique
RECURSIVE stable_unique(_)
stable_unique(l) ==
    IF l = <<>> THEN <<>>
    ELSE IF \E i \in 1..(Len(l) - 1) : l[i] = l[Len(l)]
         THEN stable_unique(SubSeq(l, 1, Len(l) - 1))
    ELSE Append(stable_unique(SubSeq(l, 1, Len(l) - 1)), l[Len(l)])

\* what main returns and what it did: the tokens parse_atom gave None for,
\* the atoms add_atom was called for, those it failed on, and the plan
\* entries the build loop took up, each with whether it was built and merged
MainResult(r, unresolved, failures, built) ==
    [ret |-> r, unresolved |-> unresolved, tried |-> <<>>, failures |-> failures,
     built |-> built]

\* a build loop that goes on after a failure whatever the options are
RECURSIVE main_build_GoesOn(_, _, _, _, _, _, _)
main_build_GoesOn(changes, broken, ignore_failures, unresolved, failures, i, built) ==
    IF i > Len(changes) THEN MainResult("0", unresolved, failures, built)
    ELSE main_build_GoesOn(changes, broken, ignore_failures, unresolved, failures,
                           i + 1, Append(built, [atom |-> changes[i],
                                                 ok |-> changes[i] \notin broken]))

\* lines 436-489: the build loop from change i on; broken are the atoms
\* whose build or merge fails
RECURSIVE main_build(_, _, _, _, _, _, _)
main_build(changes, broken, ignore_failures, unresolved, failures, i, built) ==
    IF i > Len(changes) THEN MainResult("0", unresolved, failures, built)
    ELSE IF changes[i] \in broken /\ ~ignore_failures
         THEN MainResult("1", unresolved, failures,
                         Append(built, [atom |-> changes[i], ok |-> FALSE]))
    ELSE main_build(changes, broken, ignore_failures, unresolved, failures, i + 1,
                    Append(built, [atom |-> changes[i],
                                   ok |-> changes[i] \notin broken]))

\* lines 378-380: the atoms add_atom is called for
RECURSIVE main_tried(_, _, _, _)
main_tried(atoms, bad, ignore_failures, i) ==
    IF i > Len(atoms) THEN <<>>
    ELSE IF atoms[i] \in bad /\ ~ignore_failures THEN <<atoms[i]>>
    ELSE <<atoms[i]>> \o main_tried(atoms, bad, ignore_failures, i + 1)

\* lines 378-386: the atoms add_atom fails on, bad being those it cannot
\* resolve; the loop stops at the first one unless ignore_failures
RECURSIVE main_failures(_, _, _, _)
main_failures(atoms, bad, ignore_failures, i) ==
    IF i > Len(atoms) THEN <<>>
    ELSE IF atoms[i] \in bad
         THEN IF ignore_failures
              THEN <<atoms[i]>> \o main_failures(atoms, bad, ignore_failures, i + 1)
              ELSE <<atoms[i]>>
    ELSE main_failures(atoms, bad, ignore_failures, i + 1)

\* the plan: one change for each atom the resolver took
RECURSIVE main_changes(_, _, _)
main_changes(atoms, failures, i) ==
    IF i > Len(atoms) THEN <<>>
    ELSE IF \E j \in DOMAIN failures : failures[j] = atoms[i]
         THEN main_changes(atoms, failures, i + 1)
    ELSE <<atoms[i]>> \o main_changes(atoms, failures, i + 1)

\* lines 388-489, failures being what the resolve loop collected
main_resolved(atoms, failures, opts, answer, broken, unresolved) ==
    IF failures # <<>> /\ ~opts.ignore_failures
    THEN MainResult("1", unresolved, failures, <<>>)
    ELSE IF opts.pretend THEN MainResult("None", unresolved, failures, <<>>)
    ELSE IF opts.ask /\ answer = "Failure"
         THEN MainResult("raised", unresolved, failures, <<>>)
    ELSE IF opts.ask /\ answer = "No"
         THEN MainResult("None", unresolved, failures, <<>>)
    ELSE main_build(main_changes(atoms, failures, 1), broken,
                    opts.ignore_failures, unresolved, failures, 1, <<>>)

\* lines 336-386, atoms being what the sets and the tgts gave
main_atoms(atoms, opts, sets, answer, bad, broken, unresolved) ==
    IF atoms = <<>> THEN MainResult("1", unresolved, <<>>, <<>>)
    ELSE IF opts.set = <<>> /\ ~opts.oneshot /\ "w" \notin sets
         THEN MainResult("1", unresolved, <<>>, <<>>)
    ELSE [main_resolved(atoms, main_failures(atoms, bad, opts.ignore_failures, 1),
                        opts, answer, broken, unresolved)
              EXCEPT !.tried = main_tried(atoms, bad, opts.ignore_failures, 1)]

\* lines 316-334: the target loop from token i on
RECURSIVE main_targets(_, _, _, _, _, _, _, _, _)
main_targets(pkgs, tgts, opts, sets, answer, bad, broken, i, acc) ==
    IF i > Len(tgts)
    THEN main_atoms(stable_unique(acc.atoms), opts, sets, answer, bad,
                    broken, acc.unresolved)
    ELSE IF parse_atom(pkgs, tgts[i]).err = "AmbiguousQuery"
         THEN MainResult("1", acc.unresolved, <<>>, <<>>)
    ELSE IF parse_atom(pkgs, tgts[i]).err = "None"
         THEN IF tgts[i].category = "" /\ tgts[i].package \in sets
              THEN MainResult("2", acc.unresolved \cup {tgts[i]}, <<>>, <<>>)
              ELSE IF ~opts.ignore_failures
                   THEN main_targets(pkgs, tgts, opts, sets, answer, bad,
                                     broken, i + 1,
                                     [acc EXCEPT !.unresolved = @ \cup {tgts[i]}])
              ELSE MainResult("-1", acc.unresolved \cup {tgts[i]}, <<>>, <<>>)
    ELSE main_targets(pkgs, tgts, opts, sets, answer, bad, broken, i + 1,
                      [acc EXCEPT !.atoms = Append(@, parse_atom(pkgs, tgts[i]).atom)])

\* main without options.unmerge, lines 294-489; all_repos holds AllPkgs
main_merge(tgts, opts, sets, answer, bad, broken) ==
    IF \E i \in DOMAIN opts.set : opts.set[i] \notin sets
    THEN MainResult("1", {}, <<>>, <<>>)
    ELSE main_targets(AllPkgs, tgts, opts, sets, answer, bad, broken, 1,
                      [atoms |-> IF opts.set = <<>> THEN <<>> ELSE WorldAtoms,
                       unresolved |-> {}])

\* main with options.unmerge, lines 278-292: what it returns
main_unmerge(r, opts, sets) ==
    IF ~opts.oneshot /\ "w" \notin sets THEN "1"
    ELSE IF r.err # "" THEN "1"
    ELSE "None"

\* the exit status of the process for what main returned
exit_status(r) ==
    IF r \in {"None", "0"} THEN 0
    ELSE IF r = "2" THEN 2
    ELSE IF r = "-1" THEN 255
    ELSE 1

Options == [unmerge : BOOLEAN, pretend : BOOLEAN, ask : BOOLEAN, force : BOOLEAN,
            ignore_failures : BOOLEAN, oneshot : BOOLEAN,
            set : {<<>>, <<"w">>}]

\* the sequences without repetition over S of at most n elements
RECURSIVE Orders(_, _)
Orders(S, n) ==
    IF n = 0 THEN {<<>>}
    ELSE {<<>>} \cup UNION {{<<x>> \o o : o \in {o \in Orders(S, n - 1) :
                                               \A i \in DOMAIN o : o[i] # x}} :
                            x \in S}

TargetLists == UNION {[1..n -> TargetTokens] : n \in 1..MaxTargets}

NoResult == MainResult("", {}, <<>>, <<>>)

PmIdle ==
    /\ vdb = <<>> /\ vdbFrozen = FALSE /\ pkgsets = {}
    /\ options = [unmerge |-> FALSE, pretend |-> FALSE, ask |-> FALSE,
                  force |-> FALSE, ignore_failures |-> FALSE,
                  oneshot |-> FALSE, set |-> <<>>]
    /\ targets = <<>> /\ pmPc = "idle" /\ uninstalled = <<>>
    /\ result = NoResult

\* check_values, lines 71-87: no sets with unmerge, and at least one target;
\* the vdb is not written without unmerge before the build loop
PmInit ==
    /\ options \in Options
    /\ options.unmerge => options.set = <<>>
    /\ targets \in TargetLists
    /\ pkgsets \in SUBSET {"w"}
    /\ vdb \in Orders(AllPkgs, MaxInstalled)
    /\ vdbFrozen \in BOOLEAN
    /\ ~options.unmerge => vdb = <<>> /\ ~vdbFrozen /\ ~options.force
    /\ pmPc = "start" /\ uninstalled = <<>> /\ result = NoResult

Answers == {"Yes", "No", "Failure"}

MainUnmerge ==
    /\ pmPc = "start" /\ options.unmerge
    /\ \E answer \in Answers, rets \in [1..MaxInstalled -> BOOLEAN] :
        \E r \in {IF ~options.oneshot /\ "w" \notin pkgsets
                  THEN [err |-> "", ops |-> <<>>]
                  ELSE unmerge(Installed(vdb), targets, options, vdbFrozen,
                               answer, rets)} :
            /\ uninstalled' = r.ops
            /\ result' = MainResult(main_unmerge(r, options, pkgsets), {}, <<>>, <<>>)
            /\ vdbFrozen' = IF ~options.oneshot /\ "w" \notin pkgsets
                            THEN vdbFrozen
                            ELSE unmerge_frozen(
                                     unmerge_tokens(Installed(vdb), targets, 1, {}),
                                     options, vdbFrozen, answer)
    /\ pmPc' = "done"
    /\ UNCHANGED <<vdb, pkgsets, options, targets>>
    /\ UNCHANGED notPm

MainMerge ==
    /\ pmPc = "start" /\ ~options.unmerge
    /\ \E answer \in Answers, bad \in SUBSET {pkg_key(p) : p \in AllPkgs},
          broken \in SUBSET {pkg_key(p) : p \in AllPkgs} :
        result' = main_merge(targets, options, pkgsets, answer, bad, broken)
    /\ pmPc' = "done"
    /\ UNCHANGED <<vdb, vdbFrozen, pkgsets, options, targets, uninstalled>>
    /\ UNCHANGED notPm

main == MainUnmerge \/ MainMerge

PmNext == main

\* token i of the call matches no installed package, or packages of several
\* categories
BadToken(i) ==
    \/ match(Installed(vdb), targets[i]) = {}
    \/ Cardinality({p.category : p \in match(Installed(vdb), targets[i])}) > 1

\* C13: unmerge issues no uninstall when some token, at any position, matches
\* no installed package or packages of several categories, and main then
\* returns an error; it issues none under --pretend, and none when the vdb is
\* frozen and --force is not given.
C13_UnmergeAllOrNothing ==
    (pmPc = "done" /\ options.unmerge) =>
        /\ (\E i \in DOMAIN targets : BadToken(i)) =>
               uninstalled = <<>> /\ result.ret = "1"
        /\ options.pretend => uninstalled = <<>>
        /\ (vdbFrozen /\ ~options.force) => uninstalled = <<>>

\* a call whose first token matches one installed package and whose
\* second token matches nothing, on a vdb that is not frozen: nothing is
\* uninstalled
C13_Witness ==
    /\ pmPc = "done" /\ options.unmerge /\ options.oneshot
    /\ ~options.pretend /\ ~options.ask /\ ~vdbFrozen
    /\ Len(targets) = 2 /\ ~BadToken(1) /\ BadToken(2)
    /\ Cardinality(match(Installed(vdb), targets[1])) = 1
    /\ uninstalled = <<>> /\ result.ret = "1"

\* when p was installed into the vdb
InstallPos(p) == CHOOSE i \in DOMAIN vdb : vdb[i] = p

\* C14: unmerge issues the uninstalls in reverse install order: of two
\* packages it uninstalls, the one installed later is uninstalled first.
C14_ReverseInstallOrder ==
    \A i, j \in DOMAIN uninstalled :
        i < j => InstallPos(uninstalled[i].pkg) > InstallPos(uninstalled[j].pkg)

\* the targets parse_atom resolves to one package key
Resolved(i) == parse_atom(AllPkgs, targets[i]).err = ""

\* C15: without --ignore-failures main exits nonzero when some target could
\* not be resolved to a package; it returns 2 when the first target that is
\* not resolved names a set; without --ignore-failures it exits 0 only when
\* every target was resolved and the resolver took every atom.
C15_ExitCodes ==
    (pmPc = "done" /\ ~options.unmerge) =>
        /\ (result.unresolved # {} /\ ~options.ignore_failures) =>
               exit_status(result.ret) # 0
        /\ result.ret = "2" =>
               \E i \in DOMAIN targets :
                   ~Resolved(i) /\ targets[i].package \in pkgsets
        /\ (exit_status(result.ret) = 0 /\ ~options.ignore_failures) =>
               /\ \A i \in DOMAIN targets : Resolved(i)
               /\ result.failures = <<>>

\* ------------------------------------------------------------------------
\* util/thread_pool.py: one call of map_async(iterable, functor, threads=n).
\*
\* The main thread and the worker threads take one step at a time.  The
\* iterable yields its items and then ends, or raises after some of them.
\* The functor reads items from its iterator; after an item it asks for the
\* next one, returns early or raises; it returns when the iterator ends.

\* items of the iterable at most
MaxItems == 2
\* the threads argument at most
MaxThreads == 2

Workers == 1..MaxThreads

\* a number of threads that does not look at the length of the iterable
clamp_parallelism_Unclamped(n_threads, sized, n) ==
    IF n_threads > 0 THEN n_threads ELSE 0

\* lines 31-38: the number of threads made
clamp_parallelism(n_threads, sized, n) ==
    IF sized
    THEN IF (IF n < n_threads THEN n ELSE n_threads) > 0
         THEN (IF n < n_threads THEN n ELSE n_threads) ELSE 0
    ELSE IF n_threads > 0 THEN n_threads ELSE 0

\* line 64: the object that ends an iterator; the items are 1, 2, ...
empty_signal == 0

\* an iterator that goes on whatever the event says
iter_queue_goes_on_Always(event) == TRUE

\* line 49: while not kill.isSet()
iter_queue_goes_on(event) == ~event

\* what one qlist.get() returned, and whether kill was set by then
Get(item, killed) == [item |-> item, killed |-> killed]

\* one signal less than there are threads
signals_OneLess(n) == IF n > 0 THEN n - 1 ELSE 0

\* lines 82-83: the empty signals put on the queue
signals(n) == n

NoneTaken == [w \in Workers |-> [gets |-> <<>>, stopped |-> FALSE]]

PoolIdle ==
    /\ poolPc = "idle" /\ parallelism = 0 /\ threads = 0
    /\ iterable = [n |-> 0, raises |-> FALSE, sized |-> FALSE]
    /\ queue = <<>> /\ kill = FALSE /\ wpc = [w \in Workers |-> "new"]
    /\ idx = 0 /\ raising = FALSE /\ results = 0 /\ taken = NoneTaken

\* lines 43-70: the queue, the event and the threads are made
PoolInit ==
    /\ threads \in (-1)..MaxThreads
    /\ iterable \in [n : 0..MaxItems, raises : BOOLEAN, sized : BOOLEAN]
    /\ parallelism = clamp_parallelism(threads, iterable.sized, iterable.n)
    /\ poolPc = "start" /\ queue = <<>> /\ kill = FALSE
    /\ wpc = [w \in Workers |-> "new"]
    /\ idx = 0 /\ raising = FALSE /\ results = 0 /\ taken = NoneTaken

\* lines 73-74: the next thread is started
StartThread ==
    /\ poolPc = "start" /\ idx < parallelism
    /\ wpc' = [wpc EXCEPT ![idx + 1] = "check"]
    /\ idx' = idx + 1
    /\ UNCHANGED <<poolPc, parallelism, iterable, threads, queue, kill, raising, results, taken>>
    /\ UNCHANGED notPool

\* line 74 and 78-80: start() raises, the thread does not run
StartRaises ==
    /\ poolPc = "start" /\ idx < parallelism
    /\ kill' = TRUE /\ raising' = TRUE
    /\ poolPc' = "signals" /\ idx' = 0
    /\ UNCHANGED <<parallelism, iterable, threads, queue, wpc, results, taken>>
    /\ UNCHANGED notPool

\* line 76: every thread is started, the feeding begins
StartDone ==
    /\ poolPc = "start" /\ idx = parallelism
    /\ poolPc' = "feed" /\ idx' = 0
    /\ UNCHANGED <<parallelism, iterable, threads, queue, kill, wpc, raising, results, taken>>
    /\ UNCHANGED notPool

\* lines 76-77: one item is put on the queue
Feed ==
    /\ poolPc = "feed" /\ idx < iterable.n
    /\ queue' = Append(queue, idx + 1)
    /\ idx' = idx + 1
    /\ UNCHANGED <<poolPc, parallelism, iterable, threads, kill, wpc, raising, results, taken>>
    /\ UNCHANGED notPool

\* lines 76 and 78-80: the iterable raises
FeedRaises ==
    /\ poolPc = "feed" /\ idx = iterable.n /\ iterable.raises
    /\ kill' = TRUE /\ raising' = TRUE
    /\ poolPc' = "signals" /\ idx' = 0
    /\ UNCHANGED <<parallelism, iterable, threads, queue, wpc, results, taken>>
    /\ UNCHANGED notPool

\* line 76: the iterable ends
FeedDone ==
    /\ poolPc = "feed" /\ idx = iterable.n /\ ~iterable.raises
    /\ poolPc' = "signals" /\ idx' = 0
    /\ UNCHANGED <<parallelism, iterable, threads, queue, kill, wpc, raising, results, taken>>
    /\ UNCHANGED notPool

\* lines 82-83: one empty signal is put
PutSignal ==
    /\ poolPc = "signals" /\ idx < signals(parallelism)
    /\ queue' = Append(queue, empty_signal)
    /\ idx' = idx + 1
    /\ UNCHANGED <<poolPc, parallelism, iterable, threads, kill, wpc, raising, results, taken>>
    /\ UNCHANGED notPool

SignalsDone ==
    /\ poolPc = "signals" /\ idx = signals(parallelism)
    /\ poolPc' = "join" /\ idx' = 0
    /\ UNCHANGED <<parallelism, iterable, threads, queue, kill, wpc, raising, results, taken>>
    /\ UNCHANGED notPool

\* reclaim_threads, lines 18-20: join returns once the thread has ended
Join ==
    /\ poolPc = "join" /\ idx < parallelism
    /\ wpc[idx + 1] = "ended"
    /\ idx' = idx + 1
    /\ UNCHANGED <<poolPc, parallelism, iterable, threads, queue, kill, wpc, raising, results, taken>>
    /\ UNCHANGED notPool

\* reclaim_threads, lines 20-25: join of a thread that was never started
\* raises RuntimeError, which is passed on or swallowed
JoinUnstarted ==
    /\ poolPc = "join" /\ idx < parallelism
    /\ wpc[idx + 1] = "new"
    /\ \/ poolPc' = "raised" /\ idx' = idx
       \/ poolPc' = poolPc /\ idx' = idx + 1
    /\ UNCHANGED <<parallelism, iterable, threads, queue, kill, wpc, raising, results, taken>>
    /\ UNCHANGED notPool

\* lines 85-87: map_async returns the results, or the exception goes on
Finish ==
    /\ poolPc = "join" /\ idx = parallelism
    /\ poolPc' = IF raising THEN "raised" ELSE "returned"
    /\ UNCHANGED <<parallelism, iterable, threads, queue, kill, wpc, idx, raising, results, taken>>
    /\ UNCHANGED notPool

\* iter_queue, line 49, kill not set: the worker goes on to the queue
IterCheck(w) ==
    /\ wpc[w] = "check" /\ iter_queue_goes_on(kill)
    /\ wpc' = [wpc EXCEPT ![w] = "get"]
    /\ UNCHANGED <<poolPc, parallelism, iterable, threads, queue, kill, idx, raising, results, taken>>
    /\ UNCHANGED notPool

\* iter_queue, line 49, kill set: the iterator ends, the functor returns and
\* worker appends its result (lines 56-62)
IterKilled(w) ==
    /\ wpc[w] = "check" /\ ~iter_queue_goes_on(kill)
    /\ wpc' = [wpc EXCEPT ![w] = "ended"]
    /\ results' = results + 1
    /\ UNCHANGED <<poolPc, parallelism, iterable, threads, queue, kill, idx, raising, taken>>
    /\ UNCHANGED notPool

\* iter_queue, lines 50-53: qlist.get() returns an item
GetItem(w) ==
    /\ wpc[w] = "get" /\ queue # <<>> /\ Head(queue) # empty_signal
    /\ queue' = Tail(queue)
    /\ taken' = [taken EXCEPT ![w].gets = Append(@, Get(Head(queue), kill))]
    /\ wpc' = [wpc EXCEPT ![w] = "item"]
    /\ UNCHANGED <<poolPc, parallelism, iterable, threads, kill, idx, raising, results>>
    /\ UNCHANGED notPool

\* iter_queue, lines 50-52: qlist.get() returns the empty signal, the iterator
\* ends, the functor returns
GetSignal(w) ==
    /\ wpc[w] = "get" /\ queue # <<>> /\ Head(queue) = empty_signal
    /\ queue' = Tail(queue)
    /\ taken' = [taken EXCEPT ![w].gets = Append(@, Get(empty_signal, kill))]
    /\ wpc' = [wpc EXCEPT ![w] = "ended"]
    /\ results' = results + 1
    /\ UNCHANGED <<poolPc, parallelism, iterable, threads, kill, idx, raising>>
    /\ UNCHANGED notPool

\* the functor asks for the next item
FunctorNext(w) ==
    /\ wpc[w] = "item"
    /\ wpc' = [wpc EXCEPT ![w] = "check"]
    /\ UNCHANGED <<poolPc, parallelism, iterable, threads, queue, kill, idx, raising, results, taken>>
    /\ UNCHANGED notPool

\* the functor returns before its iterator ends (a result is appended, lines
\* 56-62) or raises (the thread ends without one)
FunctorStops(w) ==
    /\ wpc[w] = "item"
    /\ wpc' = [wpc EXCEPT ![w] = "ended"]
    /\ \E raised \in BOOLEAN : results' = IF raised THEN results ELSE results + 1
    /\ taken' = [taken EXCEPT ![w].stopped = TRUE]
    /\ UNCHANGED <<poolPc, parallelism, iterable, threads, queue, kill, idx, raising>>
    /\ UNCHANGED notPool

map_async ==
    \/ StartThread \/ StartRaises \/ StartDone
    \/ Feed \/ FeedRaises \/ FeedDone
    \/ PutSignal \/ SignalsDone
    \/ Join \/ JoinUnstarted \/ Finish

worker(w) ==
    \/ IterCheck(w) \/ IterKilled(w) \/ GetItem(w) \/ GetSignal(w)
    \/ FunctorNext(w) \/ FunctorStops(w)

PoolNext == map_async \/ \E w \in Workers : worker(w)

\* a thread that runs takes its next step, and the functor does not keep an
\* item for ever
PoolFair ==
    /\ WF_vars(map_async)
    /\ \A w \in Workers : WF_vars(worker(w))

MapAsyncDone == poolPc \in {"returned", "raised"}

\* C16: map_async returns or raises in the end, and when it has, every worker
\* thread that was started has ended: none is left running or waiting on the
\* queue.
C16_ThreadsReclaimed ==
    /\ [](MapAsyncDone => \A w \in Workers : wpc[w] \in {"new", "ended"})
    /\ <>MapAsyncDone

\* the iterable raised after its two items were put, while both workers were
\* running; both have ended and map_async has raised
C16_Witness ==
    /\ poolPc = "raised" /\ raising /\ parallelism = 2 /\ iterable.n = 2
    /\ \A w \in Workers : wpc[w] = "ended"

\* ------------------------------------------------------------------------
\* util/agentrpc.py: one call of agent_rpc_call(request).
\*
\* A JSON object is a set of [k, v] with strings for values.  Its text is a
\* sequence of tokens: an opening brace, one token for each member, a closing
\* brace; the text of the empty list is two brackets.  The pipe holds the
\* bytes of the length prefix and the tokens that follow it.

\* members of a request or a reply at most
MaxMembers == 3

Tok(k, v) == [k |-> k, v |-> v]

Punct == {"{", "}", "[", "]"}

MemberKeys == <<"error", "id", "status">>

\* json.dumps of an object, members in the order of MemberKeys
RECURSIVE dumps_members(_, _)
dumps_members(val, i) ==
    IF i > Len(MemberKeys) THEN <<>>
    ELSE (IF MemberKeys[i] \in Keys(val)
          THEN <<Tok(MemberKeys[i], Lookup(val, MemberKeys[i]))>> ELSE <<>>)
         \o dumps_members(val, i + 1)

dumps(val) == <<Tok("{", "")>> \o dumps_members(val, 1) \o <<Tok("}", "")>>

\* json.loads: [exc, type, v]
loads(s) ==
    IF /\ Len(s) >= 2 /\ s[1].k = "{" /\ s[Len(s)].k = "}"
       /\ \A i \in 2..(Len(s) - 1) : s[i].k \notin Punct
    THEN [exc |-> "", type |-> "dict", v |-> {s[i] : i \in 2..(Len(s) - 1)}]
    ELSE IF s = <<Tok("[", ""), Tok("]", "")>>
         THEN [exc |-> "", type |-> "list", v |-> {}]
    ELSE [exc |-> "ValueError", type |-> "", v |-> {}]

\* struct.pack('>L', n)
pack(n) == <<n \div 16777216, (n \div 65536) % 256, (n \div 256) % 256, n % 256>>

\* struct.unpack('>L', szs) of four bytes
unpack(szs) == ((szs[1] * 256 + szs[2]) * 256 + szs[3]) * 256 + szs[4]

\* os.read(fd, n) of what the pipe holds
os_read(bytes, n) == SubSeq(bytes, 1, IF n < Len(bytes) THEN n ELSE Len(bytes))

\* JsonRPC.read, lines 17-21, on a pipe [head, body]
JsonRPC_read(pipe) ==
    IF Len(os_read(pipe.head, 4)) # 4
    THEN [exc |-> "struct.error", type |-> "", v |-> {}]
    ELSE loads(os_read(pipe.body, unpack(os_read(pipe.head, 4))))

\* JsonRPC.write, lines 23-27: what the agent is sent
JsonRPC_write(val) == [head |-> pack(Len(dumps(val))), body |-> dumps(val)]

Raised(e) == [exc |-> e, repl |-> {}]

\* lines 48-56
agent_rpc_status(repl) ==
    IF "status" \notin Keys(repl.v) THEN Raised("KeyError")
    ELSE IF Lookup(repl.v, "status") = "success" THEN [exc |-> "", repl |-> repl.v]
    ELSE IF Lookup(repl.v, "status") # "failure" THEN Raised("GenericBuildError")
    ELSE IF "error" \notin Keys(repl.v) THEN Raised("GenericBuildError")
    ELSE [exc |-> "", repl |-> repl.v]

\* lines 39-46 and on: repl is what rpc.read() gave
agent_rpc_reply(request, repl) ==
    IF repl.exc = "ValueError" THEN Raised("GenericBuildError")
    ELSE IF repl.exc # "" THEN Raised(repl.exc)
    ELSE IF "status" \notin Keys(request) THEN Raised("GenericBuildError")
    ELSE IF Keys(request) = {"status"}
         THEN IF repl.type = "dict" THEN agent_rpc_status(repl)
              ELSE Raised("TypeError")
    ELSE IF repl.type # "dict" THEN Raised("TypeError")
    ELSE IF \E k \in Keys(request) \ {"status"} :
                k \notin Keys(repl.v) \/ Lookup(repl.v, k) # Lookup(request, k)
         THEN Raised("GenericBuildError")
    ELSE agent_rpc_status(repl)

\* agent_rpc_call, lines 30-56
agent_rpc_call(request, env, pipe) ==
    IF ~env THEN Raised("GenericBuildError")
    ELSE agent_rpc_reply(request, JsonRPC_read(pipe))

Requests ==
    {{Tok("status", "")}, {Tok("status", ""), Tok("id", "1")}, {Tok("id", "1")}}

Replies ==
    {st \cup er \cup id :
        st \in {{}} \cup {{Tok("status", s)} : s \in {"success", "failure", "busy"}},
        er \in {{}, {Tok("error", "e")}},
        id \in {{}} \cup {{Tok("id", i)} : i \in {"1", "2"}}}

\* what the agent wrote: the text of a reply or of a list, whole or cut short
Pipes ==
    {[head |-> SubSeq(pack(Len(t)), 1, h), body |-> SubSeq(t, 1, b)] :
        <<t, h, b>> \in {x \in ({dumps(r) : r \in Replies}
                               \cup {<<Tok("[", ""), Tok("]", "")>>})
                              \X (0..4) \X (0..(MaxMembers + 2)) :
                         /\ x[3] <= Len(x[1])
                         /\ x[2] < 4 => x[3] = 0}}

NoPipe == [head |-> <<>>, body |-> <<>>]

AgentIdle ==
    /\ agentPc = "idle" /\ rpcRequest = {} /\ environ = FALSE
    /\ sent = NoPipe /\ inPipe = NoPipe /\ rpcResult = Raised("")

AgentInit ==
    /\ agentPc = "start"
    /\ rpcRequest \in Requests
    /\ environ \in BOOLEAN
    /\ inPipe \in Pipes
    /\ sent = NoPipe /\ rpcResult = Raised("")

\* agent_rpc_call(request): the request is written when the descriptors are
\* known, its status member is deleted when the reply was read
AgentRpcCall ==
    /\ agentPc = "start"
    /\ rpcResult' = agent_rpc_call(rpcRequest, environ, inPipe)
    /\ sent' = IF environ THEN JsonRPC_write(rpcRequest) ELSE sent
    /\ rpcRequest' = IF environ /\ JsonRPC_read(inPipe).exc = ""
                     THEN {e \in rpcRequest : e.k # "status"} ELSE rpcRequest
    /\ agentPc' = "done"
    /\ UNCHANGED <<environ, inPipe>>
    /\ UNCHANGED notAgent

AgentNext == AgentRpcCall

\* the reply the pipe holds is malformed: its prefix or its text is cut
\* short, it is no JSON object, it does not echo a member of the request,
\* it has no status or an unknown one, or it is a failure without error
Malformed(request, pipe) ==
    \/ Len(pipe.head) < 4
    \/ Len(pipe.body) < unpack(pipe.head)
    \/ loads(pipe.body).type # "dict"
    \/ \E k \in Keys(request) \ {"status"} :
           k \notin Keys(loads(pipe.body).v)
           \/ Lookup(loads(pipe.body).v, k) # Lookup(request, k)
    \/ "status" \notin Keys(loads(pipe.body).v)
    \/ Lookup(loads(pipe.body).v, "status") \notin {"success", "failure"}
    \/ /\ Lookup(loads(pipe.body).v, "status") = "failure"
       /\ "error" \notin Keys(loads(pipe.body).v)

\* C17: agent_rpc_call raises GenericBuildError for every malformed reply,
\* and it returns only a reply that echoes every member of the request
\* other than status.
C17_MalformedIsGenericBuildError ==
    (agentPc = "done" /\ environ) =>
        /\ Malformed(rpcRequest, inPipe) => rpcResult.exc = "GenericBuildError"
        /\ rpcResult.exc = "" =>
               \A k \in Keys(rpcRequest) \ {"status"} :
                   /\ k \in Keys(rpcResult.repl)
                   /\ Lookup(rpcResult.repl, k) = Lookup(rpcRequest, k)

\* ------------------------------------------------------------------------
\* ebuild/profiles.py: OnDiskProfile._load_stack over parent files that may
\* list one another.
\*
\* The profile is directory 1.  Every directory exists, so that each parent
\* is made; ProfileNode instances are cached, so that a directory is one
\* node however often it is reached.  The interpreter ends a recursion that
\* is deeper than its limit with RuntimeError.

\* the directories whose parent files are chosen
MaxCycleNodes == 3
\* the depth of nested calls of f the interpreter allows
RecursionLimit == 5

CycleNodes == 1..MaxCycleNodes

StackOk(l) == [exc |-> "", l |-> l]

\* _load_stack.f, lines 311-315, for the nodes xs one after the other: the
\* parents of each node first, then the node.  path holds the nodes whose
\* call of f is on the interpreter's stack.
RECURSIVE load_stack_walk(_, _, _)
load_stack_walk(P, xs, path) ==
    IF xs = <<>> THEN StackOk(<<>>)
    ELSE IF Len(path) >= RecursionLimit THEN [exc |-> "RuntimeError", l |-> <<>>]
    ELSE LET h == load_stack_walk(P, P[Head(xs)], Append(path, Head(xs)))
             t == load_stack_walk(P, Tail(xs), path)
         IN IF h.exc # "" THEN h
            ELSE IF t.exc # "" THEN t
            ELSE StackOk(h.l \o <<Head(xs)>> \o t.l)

\* _load_stack, lines 310-320, without the profile base
load_stack_of(P) == load_stack_walk(P, <<1>>, <<>>)

ParentFiles == UNION {[1..n -> CycleNodes] : n \in 0..MaxParents}

StackIdle ==
    /\ stackPc = "idle" /\ parentFile = [n \in CycleNodes |-> <<>>]
    /\ stack = StackOk(<<>>)

StackInit ==
    /\ stackPc = "start" /\ parentFile \in [CycleNodes -> ParentFiles]
    /\ stack = StackOk(<<>>)

\* the stack attribute of the profile is read
LoadStack ==
    /\ stackPc = "start"
    /\ stack' = load_stack_of(parentFile)
    /\ stackPc' = "done"
    /\ UNCHANGED parentFile
    /\ UNCHANGED notStack

StackNext == LoadStack

\* the nodes reached from the nodes S over at most k parent edges
RECURSIVE Ancestors(_, _)
Ancestors(S, k) ==
    IF k = 0 THEN S
    ELSE Ancestors(S \cup UNION {Range(parentFile[n]) : n \in S}, k - 1)

\* the profile reaches a node that is its own ancestor
HasCycle ==
    \E n \in Ancestors({1}, MaxCycleNodes) :
        n \in Ancestors(Range(parentFile[n]), MaxCycleNodes)

\* C18: building the stack of a profile whose parent edges contain a cycle
\* ends with a ProfileError.
C18_CycleIsProfileError ==
    (stackPc = "done" /\ HasCycle) => stack.exc = "ProfileError"

\* the attribute a list-style file is loaded into
ListFile ==
    [system |-> "packages", visibility |-> "packages", masks |-> "package.mask",
     pkg_provided |-> "package.provided", masked_use |-> "use.mask",
     forced_use |-> "use.force", pkg_use |-> "package.use",
     pkg_use_force |-> "package.use.force", pkg_use_mask |-> "package.use.mask"]

NotLoneDash(line) == line # <<"-">>

\* the directory d, file f without its lines that are a lone '-'
WithoutLoneDash(d, f) ==
    [d EXCEPT ![f] = [@ EXCEPT !.lines = SelectSeq(@, NotLoneDash)]]

\* C19: when a list-style file of a profile holds a line that is a lone '-',
\* reading its attribute succeeds whenever it would succeed without that
\* line, and gives what the other lines give.
C19_LoneDashSkipped ==
    \A a \in DOMAIN ListFile :
        (/\ ret.attr = a /\ ret.epoch = nWrites
         /\ disk[ListFile[a]].exists
         /\ <<"-">> \in Range(disk[ListFile[a]].lines)
         /\ getattr([cache EXCEPT ![a].ld = FALSE],
                    WithoutLoneDash(disk, ListFile[a]), a).ok)
        => /\ ret.ok
           /\ ret.v = getattr([cache EXCEPT ![a].ld = FALSE],
                              WithoutLoneDash(disk, ListFile[a]), a).v

\* the name is a quarter of a year: ^[1-4]Q-\d{4}$
IsQuarterName(name) ==
    /\ Len(name) = 7
    /\ name[1] \in {"1", "2", "3", "4"}
    /\ name[2] = "Q" /\ name[3] = "-"
    /\ \A i \in 4..7 : name[i] \in Digits

\* C20: the files read_updates goes through are named ^[1-4]Q-\d{4}$, no
\* others, and they are read in ascending order of (year, quarter).
C20_OnlyQuarterFilesInOrder ==
    /\ \A i \in DOMAIN pending : IsQuarterName(pending[i])
    /\ \A i, j \in DOMAIN pending :
           i < j => updates_key(pending[i]) < updates_key(pending[j])

\* C21: collapsing default_env never fails; an incremental key whose tokens
\* are none, or whose incremental expansion is empty, is absent from the
\* result, and every other key the nodes set is in it.
C21_EmptyIncrementalDropped ==
    got.attr = "default_env" =>
        /\ got.ok
        /\ \A key \in UNION {Keys(NodeVals("default_env")[i]) :
                                i \in 1..Len(NodeVals("default_env"))} :
             IF /\ key \in incrementals
                /\ \/ Tokens(NodeVals("default_env"), key) = <<>>
                   \/ /\ key \notin incrementals_unfinalized
                      /\ Expanded(Tokens(NodeVals("default_env"), key)) = {}
             THEN key \notin Keys(got.v)
             ELSE key \in Keys(got.v)

\* a profile object nothing was read from yet
FreshInst == [a \in ProfAttrs |-> [set |-> FALSE, v |-> <<>>]]

\* what reading attr gives on the same directories without load_profile_base
WithoutBase(attr) == profile_getattr(FreshInst, ProfileNodes(pdisk), FALSE, attr)

\* the attributes EmptyRootNode does not read from the base directory
SentinelFree == {"system", "virtuals", "provides_repo", "forced_use", "masked_use"}

\* the collapsed attributes of the claim
Collapsed == SentinelFree \cup {"masks", "pkg_use", "default_env", "bashrc"}

\* C22 as stated: with load_profile_base every collapsed attribute has the
\* value it has without it, whatever files the base directory holds.
C22_SentinelIsEmpty ==
    (loadBase /\ got.attr \in Collapsed) =>
        /\ got.ok = WithoutBase(got.attr).ok
        /\ got.v = WithoutBase(got.attr).v

\* C22, amended: with load_profile_base the collapsed system, virtuals,
\* pkg_provided, forced_use and masked_use have the value they have without
\* it, whatever files the base directory holds; and when no directory of the
\* stack holds a file, the base directory included, every collapsed
\* attribute is what it is for a single directory without files.
C22_SentinelOverridesAreEmpty ==
    /\ (loadBase /\ got.attr \in SentinelFree) =>
           /\ got.ok = WithoutBase(got.attr).ok
           /\ got.v = WithoutBase(got.attr).v
    /\ (got.attr \in Collapsed /\ \A n \in 0..MaxNodes : layer[n] = 0) =>
           /\ got.ok
           /\ got.v = IF got.attr = "bashrc" THEN <<>> ELSE {}

\* the base directory holds files, the profile's directory holds a packages
\* file, and system was read through the sentinel
C22_Witness ==
    /\ loadBase /\ layer[0] = 1 /\ layer[Root] \in {1, 2}
    /\ got.attr = "system" /\ got.ok /\ got.v # {}
    /\ TheStack[1] = Sentinel

\* the atoms main resolves: those of the set and of the targets, in order
MergeAtoms ==
    stable_unique((IF options.set = <<>> THEN <<>> ELSE WorldAtoms)
                  \o [i \in DOMAIN targets |-> parse_atom(AllPkgs, targets[i]).atom])

\* every target is an atom and main got as far as the resolver
Resolving ==
    /\ pmPc = "done" /\ ~options.unmerge
    /\ \A i \in DOMAIN targets : Resolved(i)
    /\ \A i \in DOMAIN options.set : options.set[i] \in pkgsets
    /\ options.set = <<>> /\ ~options.oneshot => "w" \in pkgsets

\* C23: without --ignore-failures the first atom the resolver fails on is the
\* last one it is given, main returns 1 and nothing is built; the first plan
\* entry that fails to build or merge is the last one taken up and main
\* returns 1.  With --ignore-failures every atom is given to the resolver
\* and, unless --pretend or the user stops it, every plan entry is taken up.
C23_StopsAtFirstFailure ==
    Resolving =>
        /\ ~options.ignore_failures =>
               /\ \A i \in DOMAIN result.tried :
                      (\E j \in DOMAIN result.failures :
                           result.failures[j] = result.tried[i])
                      => i = Len(result.tried)
               /\ result.failures # <<>> => result.ret = "1" /\ result.built = <<>>
               /\ \A i \in DOMAIN result.built :
                      ~result.built[i].ok =>
                          i = Len(result.built) /\ result.ret = "1"
        /\ options.ignore_failures =>
               /\ result.tried = MergeAtoms
               /\ result.ret = "0" =>
                      Len(result.built) + Len(result.failures) = Len(MergeAtoms)

\* two atoms, the build of the first fails without --ignore-failures: the
\* second is not taken up
C23_Witness ==
    /\ Resolving /\ ~options.ignore_failures
    /\ Len(MergeAtoms) = 2 /\ result.tried = MergeAtoms
    /\ Len(result.built) = 1 /\ ~result.built[1].ok
    /\ result.ret = "1"

\* the world set after unmerge: the atoms world_set.remove was called for
\* are gone (a KeyError for an atom that is not in it is passed over)
WorldAfter ==
    {WorldAtoms[i] : i \in DOMAIN WorldAtoms}
        \ {pkg_key(uninstalled[i].pkg) : i \in {j \in DOMAIN uninstalled :
                                                  uninstalled[j].world}}

\* C29: after an unmerge, an atom is gone from the world set only if an
\* uninstall of its package reported success: a package whose uninstall
\* failed keeps its world-set entry, also under --ignore-failures.
C29_WorldKeptOnFailure ==
    (pmPc = "done" /\ options.unmerge) =>
        \A i \in DOMAIN WorldAtoms :
            WorldAtoms[i] \notin WorldAfter =>
                \E j \in DOMAIN uninstalled :
                    /\ pkg_key(uninstalled[j].pkg) = WorldAtoms[i]
                    /\ uninstalled[j].ret

\* the command an applied line records, and the key it is recorded for
RecCmd(raw_line) ==
    IF split(raw_line)[1] = MOVE
    THEN <<MOVE, split(raw_line)[2], split(raw_line)[3]>>
    ELSE <<SLOTMOVE, split(raw_line)[2] \o <<":">> \o split(raw_line)[3],
           split(raw_line)[4]>>
CmdKey(c) == atom_key(c[2])

\* the commands recorded for key by the lines from..to, in the order read
RECURSIVE Recorded(_, _, _)
Recorded(key, from, to) ==
    IF from > to THEN <<>>
    ELSE IF hist[from].out = "applied" /\ CmdKey(RecCmd(hist[from].line)) = key
         THEN <<RecCmd(hist[from].line)>> \o Recorded(key, from + 1, to)
    ELSE Recorded(key, from + 1, to)

\* the commands of a list that were recorded for key
RECURSIVE OfKey(_, _)
OfKey(l, key) ==
    IF l = <<>> THEN <<>>
    ELSE IF CmdKey(Head(l)) = key THEN <<Head(l)>> \o OfKey(Tail(l), key)
    ELSE OfKey(Tail(l), key)

\* line i is the applied move of key s to key t
AppliedMove(i, s, t) ==
    /\ hist[i].line = MoveLine(s, t)
    /\ hist[i].out = "applied"

\* a list without the command c
RECURSIVE Without(_, _)
Without(l, c) ==
    IF l = <<>> THEN <<>>
    ELSE IF Head(l) = c THEN Without(Tail(l), c)
    ELSE <<Head(l)>> \o Without(Tail(l), c)

\* what the list of s and the list of t hold of the commands recorded for t,
\* given that line i is the move of s to t
TargetCheckpoint(i, s, t) ==
    /\ OfKey(Without(ListOf(s), MoveCmd(s, t)), t) = Recorded(t, i + 1, Len(hist))
    /\ \A p \in 1..Len(ListOf(s)), q \in 1..Len(ListOf(s)) :
           ( /\ ListOf(s)[p] = MoveCmd(s, t)
             /\ ListOf(s)[q] # MoveCmd(s, t)
             /\ CmdKey(ListOf(s)[q]) = t ) => p < q
    /\ OfKey(ListOf(t), t) = Recorded(t, 1, Len(hist))

\* C24 as stated: when key S was moved to T, the list of S holds none of the
\* commands recorded for T before move S T, and holds the commands recorded
\* for T after it, all of them, after move S T and in the order they were
\* recorded; the list of T holds the commands recorded for T before and
\* after the move in the order they were recorded.
C24_TargetCheckpointAnyMove ==
    updPc = "done" =>
        \A s \in UKeys, t \in UKeys : \A i \in 1..Len(hist) :
            AppliedMove(i, s, t) => TargetCheckpoint(i, s, t)

\* C24 as the code has it: the same for a move of S to another key T; after
\* a move of S to itself the list of S is the commands recorded for S up to
\* and including that move, in the order they were recorded.
C24_TargetCheckpoint ==
    updPc = "done" =>
        \A s \in UKeys, t \in UKeys : \A i \in 1..Len(hist) :
            AppliedMove(i, s, t) =>
                IF s # t THEN TargetCheckpoint(i, s, t)
                ELSE ListOf(s) = Recorded(s, 1, i)

\* slotmove k/b, move k/a k/b, slotmove k/b: the list of k/a holds the move
\* and one slotmove, the list of k/b both slotmoves
C24_Witness ==
    /\ updPc = "done" /\ Len(hist) = 3
    /\ AppliedMove(2, <<"k", "/", "a">>, <<"k", "/", "b">>)
    /\ hist[1].out = "applied" /\ hist[3].out = "applied"
    /\ hist[1].line = hist[3].line
    /\ CmdKey(RecCmd(hist[1].line)) = <<"k", "/", "b">>
    /\ ListOf(<<"k", "/", "a">>)
           = <<MoveCmd(<<"k", "/", "a">>, <<"k", "/", "b">>), RecCmd(hist[3].line)>>
    /\ ListOf(<<"k", "/", "b">>) = <<RecCmd(hist[1].line), RecCmd(hist[3].line)>>

\* the deques a deque holds, and the deques n steps away from those of S
DequesIn(h, d) == {h[d][i].ref : i \in 1..Len(h[d])} \ {0}
RECURSIVE DequesAt(_, _, _)
DequesAt(h, S, n) ==
    IF n = 0 THEN S ELSE DequesAt(h, UNION {DequesIn(h, d) : d \in S}, n - 1)

\* no deque is reached from itself: the flattening walk comes to an end
Flattens(h) == DequesAt(h, 1..Len(h), Len(h)) = {}

\* the source key of each command of a list is the key the package has
\* there: key at the start, then the target of the preceding move
RECURSIVE FollowsKey(_, _)
FollowsKey(l, key) ==
    \/ l = <<>>
    \/ /\ CmdKey(Head(l)) = key
       /\ FollowsKey(Tail(l), IF Head(l)[1] = MOVE THEN atom_key(Head(l)[3]) ELSE key)

\* how often the command c was recorded
TimesRecorded(c) ==
    Cardinality({i \in DOMAIN hist :
                    hist[i].out = "applied" /\ RecCmd(hist[i].line) = c})

\* C28: whatever lines are read, moves in a cycle and moves of a key to
\* itself included, the deques never hold a cycle, so that read_updates
\* comes to an end; and in the list of every key no command occurs more
\* often than it was recorded, and the source key of each command is the key
\* the package has at that point.
C28_ListsFollowThePackage ==
    /\ Flattens(heap)
    /\ updPc = "done" =>
         \A key \in UKeys :
             /\ \A p \in 1..Len(ListOf(key)) :
                    Len(ListOf(key)) - Len(Without(ListOf(key), ListOf(key)[p]))
                        <= TimesRecorded(ListOf(key)[p])
             /\ FollowsKey(ListOf(key), key)

\* move k/a k/b, move k/b k/a and a third line were read and read_updates
\* has returned: the list of k/a is the two moves
C28_Witness ==
    /\ updPc = "done" /\ Len(hist) = 3
    /\ AppliedMove(1, <<"k", "/", "a">>, <<"k", "/", "b">>)
    /\ AppliedMove(2, <<"k", "/", "b">>, <<"k", "/", "a">>)
    /\ ListOf(<<"k", "/", "a">>)
           = <<MoveCmd(<<"k", "/", "a">>, <<"k", "/", "b">>),
               MoveCmd(<<"k", "/", "b">>, <<"k", "/", "a">>)>>

\* read_updates before the first line
NoUpdates == [heap |-> <<>>, mods |-> {}, moved |-> {}]

\* _process_update over the lines, from the state u
RECURSIVE Replay(_, _)
Replay(lines, u) ==
    IF lines = <<>> THEN u
    ELSE Replay(Tail(lines), process_update(u, Head(lines)).u)

\* the lines read, and the lines read without line i
LinesRead == [k \in 1..Len(hist) |-> hist[k].line]
LinesBut(i) == [k \in 1..(Len(hist) - 1) |-> hist[IF k < i THEN k ELSE k + 1].line]

\* the line is one that is rejected in the state `before`: a move without
\* exactly two arguments or with a versioned atom, a slotmove without exactly
\* three arguments or with a slotted atom, a command of a key already moved
Rejected(before, line) ==
    /\ line # <<>>
    /\ \/ /\ line[1] = MOVE
          /\ \/ Len(line) # 3
             \/ /\ AtomOk(line[2]) /\ AtomOk(line[3])
                /\ \/ atom_ver(line[2]) # <<>>
                   \/ atom_ver(line[3]) # <<>>
                   \/ atom_key(line[2]) \in Keys(before.moved)
       \/ /\ line[1] = SLOTMOVE
          /\ \/ Len(line) # 4
             \/ /\ AtomOk(line[2])
                /\ \/ atom_slot(line[2]) # <<>>
                   \/ atom_key(line[2]) \in Keys(before.moved)

\* C30: a rejected line changes nothing: the lists of all keys and the
\* record of moved keys are what they are when the same lines are read
\* without it.
C30_RejectedLineChangesNothing ==
    \A i \in DOMAIN hist :
        Rejected(Replay(SubSeq(LinesRead, 1, i - 1), NoUpdates), split(hist[i].line))
        => /\ read_result(Replay(LinesBut(i), NoUpdates)) = read_result(TheUpdates)
           /\ Replay(LinesBut(i), NoUpdates).moved = moved
           /\ hist[i].out \in {"error", "redundant"}

\* move k/a k/b, then the redundant move k/a k/c, then a command that is
\* applied: the result is that of the first and the third line
C30_Witness ==
    /\ updPc = "done" /\ Len(hist) = 3
    /\ AppliedMove(1, <<"k", "/", "a">>, <<"k", "/", "b">>)
    /\ hist[2].line = MoveLine(<<"k", "/", "a">>, <<"k", "/", "c">>)
    /\ hist[2].out = "redundant"
    /\ hist[3].out = "applied"
    /\ <<"k", "/", "c">> \notin Keys(commands)

\* the iterable raised while the queue was fed: every thread was started
FeedFailed ==
    /\ raising
    /\ \A w \in 1..parallelism : wpc[w] # "new"

\* the items a thread's functor was handed, and those left on the queue
ItemsOf(w) ==
    {taken[w].gets[i].item : i \in DOMAIN taken[w].gets} \ {empty_signal}
ItemsQueued == {queue[i] : i \in DOMAIN queue} \ {empty_signal}

\* C25: when the iterable raises while the queue is fed, the kill event is
\* set; a worker takes at most one more entry from the queue once it is set,
\* and that is its last; the exception leaves map_async in the end, when all
\* workers have ended, and the items then left on the queue were handed to
\* no functor.
C25_FeedFailureStopsWorkers ==
    /\ [](FeedFailed =>
            /\ kill
            /\ \A w \in Workers : \A i \in DOMAIN taken[w].gets :
                   taken[w].gets[i].killed => i = Len(taken[w].gets)
            /\ poolPc = "raised" =>
                   /\ \A w \in Workers : wpc[w] \in {"new", "ended"}
                   /\ \A w \in Workers : ItemsOf(w) \cap ItemsQueued = {})
    /\ [][(FeedFailed /\ poolPc = "raised") => UNCHANGED <<queue, taken>>]_vars
    /\ (FeedFailed ~> poolPc = "raised")

\* the iterable raised after two items; a worker that was waiting on the
\* queue took the first when kill was set, the second is left on the queue
C25_Witness ==
    /\ FeedFailed /\ poolPc = "raised" /\ iterable.n = 2
    /\ ItemsQueued = {2}
    /\ \E w \in Workers : taken[w].gets = <<Get(1, TRUE)>>

\* how often a thread's qlist.get() returned x
TimesGot(w, x) == Cardinality({i \in DOMAIN taken[w].gets : taken[w].gets[i].item = x})

\* map_async has returned, nothing was raised, threads is at least 1 and no
\* functor returned or raised before its iterator ended
RanToTheEnd ==
    /\ poolPc = "returned" /\ ~raising /\ threads >= 1
    /\ \A w \in Workers : ~taken[w].stopped

\* C27: when nothing raises, threads is at least 1 and every functor reads
\* its iterator to the end, every item of the iterable was handed to exactly
\* one worker and to it once, every worker got exactly one empty signal, as
\* the last thing it got, and the workers are min(len(iterable), threads)
\* when the iterable has a length, threads otherwise.
C27_EachItemOnce ==
    RanToTheEnd =>
        /\ \A item \in 1..iterable.n :
               \E w \in Workers :
                   /\ TimesGot(w, item) = 1
                   /\ \A v \in Workers \ {w} : TimesGot(v, item) = 0
        /\ \A w \in 1..parallelism :
               /\ TimesGot(w, empty_signal) = 1
               /\ taken[w].gets[Len(taken[w].gets)].item = empty_signal
        /\ \A w \in Workers : wpc[w] = IF w <= parallelism THEN "ended" ELSE "new"
        /\ parallelism = IF iterable.sized /\ iterable.n < threads
                         THEN iterable.n ELSE threads

\* two items and two threads: each worker was handed one item and then got
\* its empty signal
C27_Witness ==
    /\ RanToTheEnd /\ iterable.n = 2 /\ parallelism = 2
    /\ taken[1].gets = <<Get(2, FALSE), Get(empty_signal, FALSE)>>
    /\ taken[2].gets = <<Get(1, FALSE), Get(empty_signal, FALSE)>>

\* ------------------------------------------------------------------------
\* pkgsets/glsa.py: GlsaDirSet.generate_restrict_from_range(node, negate)
\* for one <vulnerable>/<unaffected> node, and the restriction it gives
\* matched against one package.
\*
\* A version is a number, a revision a number with 0 for none; the text of
\* the node is version, version-rN, or either followed by "*".

\* versions and revisions at most
MaxVersion == 2
MaxRevision == 1

RangeOps == {"ge", "gt", "lt", "le", "eq", "rge", "rgt", "rlt", "rle", "req"}

\* line 44, with op.lstrip("r") of line 153
op_translate(op) ==
    CASE op \in {"ge", "rge"} -> ">="
      [] op \in {"gt", "rgt"} -> ">"
      [] op \in {"lt", "rlt"} -> "<"
      [] op \in {"le", "rle"} -> "<="
      [] op \in {"eq", "req"} -> "="

\* the restrictions generate_restrict_from_range builds
VersionMatch(op, ver, rev, negate) ==
    [type |-> "VersionMatch", op |-> op, ver |-> ver, rev |-> rev, negate |-> negate]
StrGlobMatch(ver, rev) == [type |-> "StrGlobMatch", ver |-> ver, rev |-> rev]
AndRestriction(a, b, negate) ==
    [type |-> "AndRestriction", a |-> a, b |-> b, negate |-> negate]
ValueError == [type |-> "ValueError"]

\* generate_restrict_from_range, lines 146-170
generate_restrict_from_range(node, negate) ==
    IF node.range \in {"rge", "rgt", "rlt", "rle", "req"}
    THEN IF node.glob THEN ValueError
         ELSE IF node.revision = 0
              THEN IF op_translate(node.range) \in {"<", ">"} THEN ValueError
                   ELSE VersionMatch("~", node.version, 0, negate)
         ELSE AndRestriction(VersionMatch("~", node.version, 0, FALSE),
                             VersionMatch(op_translate(node.range), node.version,
                                          node.revision, FALSE),
                             TRUE)
    ELSE IF node.glob THEN StrGlobMatch(node.version, node.revision)
    ELSE VersionMatch(op_translate(node.range), node.version, node.revision, negate)

\* the order of (version, revision)
ver_cmp(v1, r1, v2, r2) ==
    IF v1 < v2 THEN -1 ELSE IF v1 > v2 THEN 1
    ELSE IF r1 < r2 THEN -1 ELSE IF r1 > r2 THEN 1 ELSE 0

\* VersionMatch.match: "~" looks at the version only
version_match(r, pkg) ==
    (CASE r.op = "~" -> pkg.version = r.ver
       [] r.op = "=" -> ver_cmp(pkg.version, pkg.revision, r.ver, r.rev) = 0
       [] r.op = ">=" -> ver_cmp(pkg.version, pkg.revision, r.ver, r.rev) >= 0
       [] r.op = ">" -> ver_cmp(pkg.version, pkg.revision, r.ver, r.rev) > 0
       [] r.op = "<=" -> ver_cmp(pkg.version, pkg.revision, r.ver, r.rev) <= 0
       [] r.op = "<" -> ver_cmp(pkg.version, pkg.revision, r.ver, r.rev) < 0)
    # r.negate

\* StrGlobMatch on fullver: the package's fullver begins with the text
glob_match(r, pkg) ==
    /\ pkg.version = r.ver
    /\ r.rev # 0 => pkg.revision = r.rev

\* restriction.match(pkg)
restriction_match(r, pkg) ==
    CASE r.type = "VersionMatch" -> version_match(r, pkg)
      [] r.type = "StrGlobMatch" -> glob_match(r, pkg)
      [] r.type = "AndRestriction" ->
             (version_match(r.a, pkg) /\ version_match(r.b, pkg)) # r.negate

RangeNodes == [range : RangeOps, version : 1..MaxVersion,
               revision : 0..MaxRevision, glob : BOOLEAN]
PkgVersions == [version : 1..MaxVersion, revision : 0..MaxRevision]
NotBuilt == [n \in BOOLEAN |-> ValueError]
NotMatched == [n \in BOOLEAN |-> FALSE]

GlsaIdle ==
    /\ glsaPc = "idle"
    /\ rangeNode = [range |-> "eq", version |-> 1, revision |-> 0, glob |-> FALSE]
    /\ pkgVersion = [version |-> 1, revision |-> 0]
    /\ restricts = NotBuilt /\ matched = NotMatched

GlsaInit ==
    /\ glsaPc = "start"
    /\ rangeNode \in RangeNodes
    /\ pkgVersion \in PkgVersions
    /\ restricts = NotBuilt /\ matched = NotMatched

\* the node is translated as a <vulnerable> node (negate=False, line 125)
\* and as an <unaffected> node (negate=True, line 138)
GenerateRestricts ==
    /\ glsaPc = "start"
    /\ restricts' = [n \in BOOLEAN |-> generate_restrict_from_range(rangeNode, n)]
    /\ glsaPc' = IF generate_restrict_from_range(rangeNode, FALSE) = ValueError
                 THEN "raised" ELSE "built"
    /\ UNCHANGED <<rangeNode, pkgVersion, matched>>
    /\ UNCHANGED notGlsa

\* both restrictions are matched against the package
MatchPackage ==
    /\ glsaPc = "built"
    /\ matched' = [n \in BOOLEAN |-> restriction_match(restricts[n], pkgVersion)]
    /\ glsaPc' = "done"
    /\ UNCHANGED <<rangeNode, pkgVersion, restricts>>
    /\ UNCHANGED notGlsa

GlsaNext == GenerateRestricts \/ MatchPackage

\* C26: for every range node that gives a restriction and every package, the
\* restriction made with negate=True matches exactly when the one made with
\* negate=False does not.
C26_NegateIsComplement ==
    glsaPc = "done" => (matched[TRUE] = ~matched[FALSE])

\* ------------------------------------------------------ specifications

\* every part but g is idle
IdleBut(g) ==
    /\ IF g = "node" THEN TRUE ELSE NodeIdle
    /\ IF g = "profile" THEN TRUE ELSE ProfIdle
    /\ IF g = "updates" THEN TRUE ELSE UpdIdle
    /\ IF g = "repo" THEN TRUE ELSE RepoIdle
    /\ IF g = "cache" THEN TRUE ELSE CacheIdle
    /\ IF g = "pmerge" THEN TRUE ELSE PmIdle
    /\ IF g = "pool" THEN TRUE ELSE PoolIdle
    /\ IF g = "agent" THEN TRUE ELSE AgentIdle
    /\ IF g = "stack" THEN TRUE ELSE StackIdle
    /\ IF g = "glsa" THEN TRUE ELSE GlsaIdle

NodeOnly == NodeInit /\ IdleBut("node")
SpecNode == NodeOnly /\ [][NodeNext]_vars

ProfileOnly == ProfInit /\ IdleBut("profile")
SpecProfile == ProfileOnly /\ [][ProfNext]_vars

UpdatesOnly == UpdInit /\ IdleBut("updates")
SpecUpdates == UpdatesOnly /\ [][UpdNext]_vars

RepoOnly == RepoInit /\ IdleBut("repo")
SpecRepo == RepoOnly /\ [][RepoNext]_vars

CacheOnly == CacheInit /\ IdleBut("cache")
SpecCache == CacheOnly /\ [][CacheNext]_vars

PmergeOnly == PmInit /\ IdleBut("pmerge")
SpecPmerge == PmergeOnly /\ [][PmNext]_vars

PoolOnly == PoolInit /\ IdleBut("pool")
SpecPool == PoolOnly /\ [][PoolNext]_vars
SpecPoolFair == SpecPool /\ PoolFair

AgentOnly == AgentInit /\ IdleBut("agent")
SpecAgent == AgentOnly /\ [][AgentNext]_vars

StackOnly == StackInit /\ IdleBut("stack")
SpecStack == StackOnly /\ [][StackNext]_vars

GlsaOnly == GlsaInit /\ IdleBut("glsa")
SpecGlsa == GlsaOnly /\ [][GlsaNext]_vars

====
